---- MODULE Spec2Model ----
(***************************************************************************)
(* A model of the v3 engine's request planning and execution               *)
(* (crates/engine/src/execute/plan.rs) and of parts of metadata           *)
(* resolution (crates/engine/src/metadata/resolved).                       *)
(***************************************************************************)
EXTENDS Integers, Sequences, FiniteSets, TLC

(***************************************************************************)
(* Bounds of the model.                                                    *)
(***************************************************************************)
\* the largest number of root fields of one operation
MaxFields == 3

(***************************************************************************)
(* The request: the IR of one operation, IndexMap<Alias, RootField>.       *)
(* The alias of a root field is its position in the document, so aliases   *)
(* are unique and their order is the document order.                       *)
(***************************************************************************)
DataConnectors == {"X", "Y"}

NoConnector == "none"

\* root_field::QueryRootField, by the NodeQueryPlan variant plan_query gives it.
\* plan_ok: whether planning the field succeeds (generate_execution_tree,
\* ndc_query_ir, ndc_mutation_ir and assign_with_join_ids can return Err).
\* resolves_ok: for the fields resolved without an NDC call, whether
\* resolve_type_field / resolve_schema_field return Ok.
QueryRootFields ==
       {[kind |-> "TypeName", data_connector |-> NoConnector, is_nullable |-> FALSE,
         plan_ok |-> TRUE, resolves_ok |-> TRUE]}
  \cup {[kind |-> "SchemaField", data_connector |-> NoConnector, is_nullable |-> FALSE,
         plan_ok |-> TRUE, resolves_ok |-> r] : r \in BOOLEAN}
  \cup {[kind |-> "TypeField", data_connector |-> NoConnector, is_nullable |-> TRUE,
         plan_ok |-> TRUE, resolves_ok |-> r] : r \in BOOLEAN}
  \cup {[kind |-> "NDCQueryExecution", data_connector |-> "X", is_nullable |-> n,
         plan_ok |-> p, resolves_ok |-> TRUE] : n \in BOOLEAN, p \in BOOLEAN}

\* root_field::MutationRootField
MutationRootFields ==
       {[kind |-> "MutationTypeName", data_connector |-> NoConnector, is_nullable |-> FALSE,
         plan_ok |-> TRUE, resolves_ok |-> TRUE]}
  \cup {[kind |-> "ProcedureBasedCommand", data_connector |-> c, is_nullable |-> n,
         plan_ok |-> p, resolves_ok |-> TRUE] :
           c \in DataConnectors, n \in BOOLEAN, p \in BOOLEAN}

RootFields == QueryRootFields \cup MutationRootFields

IsQueryRootField(field) == field.kind \in {"TypeName", "SchemaField", "TypeField", "NDCQueryExecution"}

IsMutationRootField(field) == field.kind \in {"MutationTypeName", "ProcedureBasedCommand"}

SeqsUpTo(S, n) == UNION {[1..k -> S] : k \in 0..n}

VARIABLES
  ir,                    \* the operation's root fields, in document order
  pc,                    \* where the request is
  request_plan,          \* the Result of generate_request_plan
  tasks,                 \* execute_query_plan: one task per root field
  mutation_queue,        \* execute_mutation_plan: the root fields still to run
  in_flight,             \* execute_mutation_plan: the awaited field, or NoAlias
  executed_root_fields,  \* execute_mutation_plan: Vec<(Alias, RootFieldResult)>
  ndc_log,               \* the NDC calls issued and completed, in order
  root_fields,           \* ExecuteQueryResult.root_fields
  response,              \* gql::http::Response
  join_locations,        \* assign_with_join_ids: the JoinLocations<RemoteJoin> given
  join_ids,              \* assign_join_ids: the JoinLocations<JoinId> returned
  join_state,            \* assign_join_ids: the RemoteJoinCounter afterwards
  join_pc,               \* where the assignment of join ids is
  metadata,              \* resolve: the metadata document
  resolved,              \* resolve: the outcome of each resolution of the document
  boolean_expression,    \* resolve_object_boolean_expression_type: its arguments
  boolean_expression_result, \* ... and what it returned
  type_mapping,          \* resolve_data_connector_type_mapping: its arguments
  type_mapping_result,   \* ... and what it returned
  command_definition,    \* resolve_command_source: its arguments
  command_result,        \* ... what it and validate_ndc_command returned
  link_document,         \* the JSON document of a DataConnectorLink
  link_result,           \* ... deserialized, upgraded, and its definition deserialized
  root_field_ir,              \* one root field with remote joins: its IR
  root_field_pc,              \* ... where its execution is
  root_field_plan,            \* ... the Result of planning it
  root_field_joins,           \* ... the join locations still to be walked
  root_field_log,             \* ... the NDC requests issued and completed for it
  root_field_result,          \* ... the Result its execution returned
  root_field_response,        \* ... the response made of its RootFieldResult
  pipeline_metadata,     \* stages::resolve stage by stage: the document
  pipeline,              \* ... the stages that ran and what resolve returned
  collect_input,         \* collect_type_mapping_for_source: the types and the mappings
  collect,               \* ... its call stack, collected_mappings and what it returned
  relationships_ir,      \* collect_relationships: the ModelSelection
  relationships_result,  \* ... the relationships map and what it returned
  select_many_field_call, \* select_many_generate_ir: the field call and the role's presets
  select_many_result,    \* ... what it returned
  schema_gds,            \* build_boolean_expression_input_schema: the metadata it reads
  schema_result,         \* ... what it returned
  data_connector_definitions, \* data_connectors::resolve: metadata_accessor.data_connectors
  data_connectors_result,\* ... what it returned
  object_type_definition, \* resolve_object_type: the definition and the graphql types seen so far
  object_type_resolution,\* ... its result and the maps it writes
  aggregate_input,       \* resolve_aggregate_expression: its arguments
  aggregate_resolution,  \* ... the calls of resolve_aggregate_expression_data_connector_mapping in progress and the result
  zipped_join_locations  \* assign_with_join_ids: what zip_with_join_ids returned

execVars == <<ir, pc, request_plan, tasks, mutation_queue, in_flight,
              executed_root_fields, ndc_log, root_fields, response>>

joinVars == <<join_locations, join_ids, join_state, join_pc>>

resolveVars == <<metadata, resolved>>

booleanExpressionVars == <<boolean_expression, boolean_expression_result>>

typeMappingVars == <<type_mapping, type_mapping_result>>

commandVars == <<command_definition, command_result>>

linkVars == <<link_document, link_result>>

fieldVars == <<root_field_ir, root_field_pc, root_field_plan, root_field_joins, root_field_log, root_field_result,
               root_field_response>>

pipelineVars == <<pipeline_metadata, pipeline>>

collectVars == <<collect_input, collect>>

relationshipVars == <<relationships_ir, relationships_result>>

selectManyVars == <<select_many_field_call, select_many_result>>

schemaVars == <<schema_gds, schema_result>>

dataConnectorsVars == <<data_connector_definitions, data_connectors_result>>

objectTypeVars == <<object_type_definition, object_type_resolution>>

aggregateVars == <<aggregate_input, aggregate_resolution>>

zipVars == <<zipped_join_locations>>

laterVars == <<pipelineVars,
               collectVars,
               relationshipVars,
               selectManyVars,
               schemaVars,
               dataConnectorsVars,
               objectTypeVars,
               aggregateVars,
               zipVars>>

earlierVars == <<booleanExpressionVars, typeMappingVars, commandVars, linkVars, fieldVars>>

otherVars == <<booleanExpressionVars, typeMappingVars, commandVars, linkVars, fieldVars,
               laterVars>>

vars == <<execVars, joinVars, resolveVars, otherVars>>

(***************************************************************************)
(* generate_request_plan                                                   *)
(***************************************************************************)
Ok(v) == [tag |-> "Ok", value |-> v]

Err(e) == [tag |-> "Err", error |-> e]

\* error::Error::InternalError(InternalError::Engine(InternalEngineError::InternalGeneric))
InternalGeneric(description) ==
  [class |-> "InternalError", origin |-> "Engine", kind |-> "InternalGeneric",
   description |-> description, field |-> 0]

MixedOperationsError == InternalGeneric("Parsed engine request contains mixed mutation/query operations")

EmptyRequestError == InternalGeneric("Parsed an empty request")

\* the error plan_query / plan_mutation return for a field they cannot plan
FieldPlanError(alias) ==
  [class |-> "PlanError", origin |-> "Planner", kind |-> "FieldPlanFailed",
   description |-> "could not plan the root field", field |-> alias]

NoPlan == [tag |-> "None"]

\* a function that has not returned yet has no Result
NotReturned == [tag |-> "None"]

\* Option: None and Some(v)
NoneValue == [tag |-> "None"]

Some(v) == [tag |-> "Some", value |-> v]

\* plan_query: the NodeQueryPlan of one query root field
plan_query(alias, field) ==
  IF field.plan_ok
    THEN Ok([alias |-> alias, kind |-> field.kind, is_nullable |-> field.is_nullable,
             resolves_ok |-> field.resolves_ok])
    ELSE Err(FieldPlanError(alias))

\* plan_mutation: the NDCMutationExecution of one procedure root field
plan_mutation(alias, field) ==
  IF field.plan_ok
    THEN Ok([alias |-> alias, data_connector |-> field.data_connector,
             is_nullable |-> field.is_nullable])
    ELSE Err(FieldPlanError(alias))

\* InsertNode that puts the group of a new connector before the others
InsertNodeNewGroupFirst(nodes, plan) ==
  IF \E g \in 1..Len(nodes) : nodes[g].data_connector = plan.data_connector
    THEN [g \in 1..Len(nodes) |->
            IF nodes[g].data_connector = plan.data_connector
              THEN [nodes[g] EXCEPT !.fields = Append(@, plan)]
              ELSE nodes[g]]
    ELSE <<[data_connector |-> plan.data_connector, fields |-> <<plan>>]>> \o nodes

\* mutation_plan.nodes.entry(connector).or_default().insert(alias, plan)
InsertNode(nodes, plan) ==
  IF \E g \in 1..Len(nodes) : nodes[g].data_connector = plan.data_connector
    THEN [g \in 1..Len(nodes) |->
            IF nodes[g].data_connector = plan.data_connector
              THEN [nodes[g] EXCEPT !.fields = Append(@, plan)]
              ELSE nodes[g]]
    ELSE Append(nodes, [data_connector |-> plan.data_connector, fields |-> <<plan>>])

\* PlanQueryRootField with the field planned before the plan's kind is looked at
PlanQueryRootFieldPlansFirst(plan, alias, field) ==
  LET node == plan_query(alias, field)
  IN  IF node.tag = "Err"
        THEN node
        ELSE IF plan.tag = "MutationPlan"
          THEN Err(MixedOperationsError)
          ELSE Ok([tag |-> "QueryPlan",
                   query_plan |-> Append(IF plan.tag = "QueryPlan" THEN plan.query_plan ELSE <<>>,
                                         node.value)])

\* the RootField::QueryRootField arm of the loop
PlanQueryRootField(plan, alias, field) ==
  IF plan.tag = "MutationPlan"
    THEN Err(MixedOperationsError)
    ELSE LET query_plan == IF plan.tag = "QueryPlan" THEN plan.query_plan ELSE <<>>
             node == plan_query(alias, field)
         IN  IF node.tag = "Err"
               THEN node
               ELSE Ok([tag |-> "QueryPlan", query_plan |-> Append(query_plan, node.value)])

\* PlanMutationRootField without the Some(RequestPlan::QueryPlan(_)) arm
PlanMutationRootFieldUnchecked(plan, alias, field) ==
  LET mutation_plan == IF plan.tag = "MutationPlan"
                         THEN plan
                         ELSE [tag |-> "MutationPlan", nodes |-> <<>>, type_names |-> <<>>]
  IN  IF field.kind = "MutationTypeName"
        THEN Ok([mutation_plan EXCEPT !.type_names = Append(@, alias)])
        ELSE LET node == plan_mutation(alias, field)
             IN  IF node.tag = "Err"
                   THEN node
                   ELSE Ok([mutation_plan EXCEPT !.nodes = InsertNode(@, node.value)])

\* the RootField::MutationRootField arm of the loop
PlanMutationRootField(plan, alias, field) ==
  IF plan.tag = "QueryPlan"
    THEN Err(MixedOperationsError)
    ELSE LET mutation_plan == IF plan.tag = "MutationPlan"
                                THEN plan
                                ELSE [tag |-> "MutationPlan", nodes |-> <<>>, type_names |-> <<>>]
         IN  IF field.kind = "MutationTypeName"
               THEN Ok([mutation_plan EXCEPT !.type_names = Append(@, alias)])
               ELSE LET node == plan_mutation(alias, field)
                    IN  IF node.tag = "Err"
                          THEN node
                          ELSE Ok([mutation_plan EXCEPT !.nodes = InsertNode(@, node.value)])

RECURSIVE PlanLoop(_, _, _)
PlanLoop(fields, i, plan) ==
  IF i > Len(fields)
    THEN IF plan.tag = "None" THEN Err(EmptyRequestError) ELSE Ok(plan)
    ELSE LET r == IF IsQueryRootField(fields[i])
                    THEN PlanQueryRootField(plan, i, fields[i])
                    ELSE PlanMutationRootField(plan, i, fields[i])
         IN  IF r.tag = "Err" THEN r ELSE PlanLoop(fields, i + 1, r.value)

generate_request_plan(fields) == PlanLoop(fields, 1, NoPlan)

NoAlias == 0

(***************************************************************************)
(* Root field results and the GraphQL response                             *)
(***************************************************************************)
\* json::Value: the value computed for a root field, and json::Value::Null
FieldValue(alias) == [json |-> "value", of |-> alias]

TypeNameValue(alias) == [json |-> "typename", of |-> alias]

JsonNull == [json |-> "null", of |-> NoAlias]

\* the error::Error a root field's execution ends with
FieldError(alias) ==
  [class |-> "ExecutionError", origin |-> "Executor", kind |-> "FieldFailed",
   description |-> "the root field failed", field |-> alias]

\* RootFieldResult::new, paired with the alias it is stored under
RootFieldResult(alias, is_nullable, result) ==
  [alias |-> alias, is_nullable |-> is_nullable, result |-> result]

\* IndexMap::insert: a new key goes last, a known key keeps its place
IndexMapInsert(map, entry) ==
  IF \E k \in 1..Len(map) : map[k].alias = entry.alias
    THEN [k \in 1..Len(map) |-> IF map[k].alias = entry.alias THEN entry ELSE map[k]]
    ELSE Append(map, entry)

RECURSIVE CollectRootFields(_, _, _)
CollectRootFields(executed, k, map) ==
  IF k > Len(executed)
    THEN map
    ELSE CollectRootFields(executed, k + 1, IndexMapInsert(map, executed[k]))

\* e.to_graphql_error(Some(path)) with path = [PathSegment::field(alias)]
GraphqlError(error, alias) == [error |-> error, path |-> <<alias>>]

\* gql::http::Response::error and gql::http::Response::partial
ResponseError(e) == [data_is_null |-> TRUE, data |-> <<>>, errors |-> <<e>>]

ResponsePartial(data, errors) == [data_is_null |-> FALSE, data |-> data, errors |-> errors]

RECURSIVE ResponseLoop(_, _, _, _)
ResponseLoop(fields, k, data, errors) ==
  IF k > Len(fields)
    THEN ResponsePartial(data, errors)
    ELSE LET field_result == fields[k]
             alias == field_result.alias
         IN  IF field_result.result.tag = "Ok"
               THEN ResponseLoop(fields, k + 1,
                      Append(data, [alias |-> alias, value |-> field_result.result.value]),
                      errors)
               ELSE IF field_result.is_nullable
                 THEN ResponseLoop(fields, k + 1,
                        Append(data, [alias |-> alias, value |-> JsonNull]),
                        Append(errors, GraphqlError(field_result.result.error, alias)))
                 ELSE ResponseError(GraphqlError(field_result.result.error, alias))

\* to_graphql_response leaving a failed nullable field out of data
RECURSIVE ResponseLoopDroppingField(_, _, _, _)
ResponseLoopDroppingField(fields, k, data, errors) ==
  IF k > Len(fields)
    THEN ResponsePartial(data, errors)
    ELSE LET field_result == fields[k]
             alias == field_result.alias
         IN  IF field_result.result.tag = "Ok"
               THEN ResponseLoopDroppingField(fields, k + 1,
                      Append(data, [alias |-> alias, value |-> field_result.result.value]),
                      errors)
               ELSE IF field_result.is_nullable
                 THEN ResponseLoopDroppingField(fields, k + 1, data,
                        Append(errors, GraphqlError(field_result.result.error, alias)))
                 ELSE ResponseError(GraphqlError(field_result.result.error, alias))

to_graphql_response_dropping_field(fields) == ResponseLoopDroppingField(fields, 1, <<>>, <<>>)

\* to_graphql_response keeping the errors collected before a non-nullable failure
RECURSIVE ResponseLoopKeepingErrors(_, _, _, _)
ResponseLoopKeepingErrors(fields, k, data, errors) ==
  IF k > Len(fields)
    THEN ResponsePartial(data, errors)
    ELSE LET field_result == fields[k]
             alias == field_result.alias
         IN  IF field_result.result.tag = "Ok"
               THEN ResponseLoopKeepingErrors(fields, k + 1,
                      Append(data, [alias |-> alias, value |-> field_result.result.value]),
                      errors)
               ELSE IF field_result.is_nullable
                 THEN ResponseLoopKeepingErrors(fields, k + 1,
                        Append(data, [alias |-> alias, value |-> JsonNull]),
                        Append(errors, GraphqlError(field_result.result.error, alias)))
                 ELSE [data_is_null |-> TRUE, data |-> <<>>,
                       errors |-> Append(errors, GraphqlError(field_result.result.error, alias))]

to_graphql_response_keeping_errors(fields) == ResponseLoopKeepingErrors(fields, 1, <<>>, <<>>)

\* ExecuteQueryResult::to_graphql_response
to_graphql_response(fields) == ResponseLoop(fields, 1, <<>>, <<>>)

(***************************************************************************)
(* execute_mutation_plan                                                   *)
(***************************************************************************)
\* the NDC calls, as the connectors see them
NdcIssue(alias) == [event |-> "issue", alias |-> alias, ok |-> TRUE]

NdcComplete(alias, ok) == [event |-> "complete", alias |-> alias, ok |-> ok]

\* for (alias, type_name) in mutation_plan.type_names
TypeNameResults(type_names) ==
  [k \in 1..Len(type_names) |->
     RootFieldResult(type_names[k], FALSE, Ok(TypeNameValue(type_names[k])))]

\* the groups of mutation_plan.nodes taken from the last one to the first
RECURSIVE MutationOrderLastGroupFirst(_, _)
MutationOrderLastGroupFirst(nodes, g) ==
  IF g > Len(nodes) THEN <<>> ELSE MutationOrderLastGroupFirst(nodes, g + 1) \o nodes[g].fields

\* for (_, mutation_group) in mutation_plan.nodes, for (alias, field_plan) in
\* mutation_group: the field plans in the order the two loops reach them
RECURSIVE MutationOrder(_, _)
MutationOrder(nodes, g) ==
  IF g > Len(nodes) THEN <<>> ELSE nodes[g].fields \o MutationOrder(nodes, g + 1)

\* the RootFieldResult of execute_mutation_field_plan for an NDC outcome
MutationFieldResult(field_plan, ok) ==
  RootFieldResult(field_plan.alias, field_plan.is_nullable,
                  IF ok THEN Ok(FieldValue(field_plan.alias))
                        ELSE Err(FieldError(field_plan.alias)))

(***************************************************************************)
(* execute_query_plan                                                      *)
(***************************************************************************)
\* execute_query_field_plan up to its first await: the fields that need no
\* NDC call are resolved at once, an NDC field issues its request and pends
FirstPoll(node) ==
  CASE node.kind = "TypeName" ->
         [state |-> "done", alias |-> node.alias, is_nullable |-> FALSE,
          result |-> Ok(TypeNameValue(node.alias))]
    [] node.kind = "SchemaField" ->
         [state |-> "done", alias |-> node.alias, is_nullable |-> FALSE,
          result |-> IF node.resolves_ok THEN Ok(FieldValue(node.alias))
                                         ELSE Err(FieldError(node.alias))]
    [] node.kind = "TypeField" ->
         [state |-> "done", alias |-> node.alias, is_nullable |-> TRUE,
          result |-> IF node.resolves_ok THEN Ok(FieldValue(node.alias))
                                         ELSE Err(FieldError(node.alias))]
    [] node.kind = "NDCQueryExecution" ->
         [state |-> "pending", alias |-> node.alias, is_nullable |-> node.is_nullable,
          result |-> Ok(JsonNull)]

\* the tasks awaited one after the other: a task is polled only when the
\* tasks before it are done
JoinAllFirstPollOneAtATime(query_plan) ==
  [k \in 1..Len(query_plan) |->
     IF \E j \in 1..(k - 1) : FirstPoll(query_plan[j]).state = "pending"
       THEN [FirstPoll(query_plan[k]) EXCEPT !.state = "unpolled"]
       ELSE FirstPoll(query_plan[k])]

\* join_all(tasks), first poll: every task is polled, in the order of the Vec
JoinAllFirstPoll(query_plan) == [k \in 1..Len(query_plan) |-> FirstPoll(query_plan[k])]

\* the NDC requests the first poll issues, in order
RECURSIVE IssuedByFirstPoll(_, _)
IssuedByFirstPoll(polled, k) ==
  IF k > Len(polled)
    THEN <<>>
    ELSE (IF polled[k].state = "pending" THEN <<NdcIssue(polled[k].alias)>> ELSE <<>>)
           \o IssuedByFirstPoll(polled, k + 1)

\* resolve_ndc_query_execution returns: the task's RootFieldResult
QueryFieldResult(task, ok) ==
  [task EXCEPT !.state = "done",
               !.result = IF ok THEN Ok(FieldValue(task.alias))
                                ELSE Err(FieldError(task.alias))]

AllDone(polled) == \A k \in 1..Len(polled) : polled[k].state = "done"

\* the tasks' outputs in the order the tasks completed (FuturesUnordered):
\* the tasks done at the first poll, then the others as their NDC calls ended
RECURSIVE DoneAtFirstPoll(_, _, _)
DoneAtFirstPoll(polled, log, k) ==
  IF k > Len(polled)
    THEN <<>>
    ELSE (IF \E p \in 1..Len(log) : log[p].alias = polled[k].alias
            THEN <<>>
            ELSE <<RootFieldResult(polled[k].alias, polled[k].is_nullable, polled[k].result)>>)
           \o DoneAtFirstPoll(polled, log, k + 1)

RECURSIVE DoneByNdc(_, _, _)
DoneByNdc(polled, log, p) ==
  IF p > Len(log)
    THEN <<>>
    ELSE (IF log[p].event = "complete"
            THEN LET k == CHOOSE k \in 1..Len(polled) : polled[k].alias = log[p].alias
                 IN  <<RootFieldResult(polled[k].alias, polled[k].is_nullable, polled[k].result)>>
            ELSE <<>>)
           \o DoneByNdc(polled, log, p + 1)

JoinAllOutputByCompletion(polled, log) ==
  DoneAtFirstPoll(polled, log, 1) \o DoneByNdc(polled, log, 1)

\* the output of join_all: the tasks' outputs in the order of the tasks
JoinAllOutput(polled, log) ==
  [k \in 1..Len(polled) |->
     RootFieldResult(polled[k].alias, polled[k].is_nullable, polled[k].result)]

\* no assignment of join ids and no resolution of metadata goes on
JoinIdle ==
  /\ join_locations = <<>>
  /\ join_ids = <<>>
  /\ join_state = [remote_joins |-> <<>>, counter |-> 0]
  /\ join_pc = "idle"

ResolveIdle ==
  /\ metadata = [object_types |-> <<>>, models |-> <<>>, rejected_by |-> "none"]
  /\ resolved = <<>>

\* no boolean expression type, type mapping, command source or data
\* connector link is being looked at
BooleanExpressionIdle ==
  /\ boolean_expression = "idle"
  /\ boolean_expression_result = "idle"

TypeMappingIdle ==
  /\ type_mapping = "idle"
  /\ type_mapping_result = "idle"

CommandIdle ==
  /\ command_definition = "idle"
  /\ command_result = "idle"

LinkIdle ==
  /\ link_document = "idle"
  /\ link_result = "idle"

\* no single root field is being followed
FieldIdle ==
  /\ root_field_ir = "idle"
  /\ root_field_pc = "idle"
  /\ root_field_plan = "idle"
  /\ root_field_joins = <<>>
  /\ root_field_log = <<>>
  /\ root_field_result = "idle"
  /\ root_field_response = "idle"

PipelineIdle ==
  /\ pipeline_metadata = "idle"
  /\ pipeline = "idle"

CollectIdle ==
  /\ collect_input = "idle"
  /\ collect = "idle"

RelationshipsIdle ==
  /\ relationships_ir = "idle"
  /\ relationships_result = "idle"

SelectManyIdle ==
  /\ select_many_field_call = "idle"
  /\ select_many_result = "idle"

SchemaIdle ==
  /\ schema_gds = "idle"
  /\ schema_result = "idle"

DataConnectorsIdle ==
  /\ data_connector_definitions = "idle"
  /\ data_connectors_result = "idle"

ObjectTypeIdle ==
  /\ object_type_definition = "idle"
  /\ object_type_resolution = "idle"

AggregateIdle ==
  /\ aggregate_input = "idle"
  /\ aggregate_resolution = "idle"

ZipIdle ==
  /\ zipped_join_locations = "idle"

\* the functions modelled below are idle, but for the one named
LaterIdleExcept(group) ==
  /\ IF group = "pipeline" THEN TRUE ELSE PipelineIdle
  /\ IF group = "collect" THEN TRUE ELSE CollectIdle
  /\ IF group = "relationships" THEN TRUE ELSE RelationshipsIdle
  /\ IF group = "select_many" THEN TRUE ELSE SelectManyIdle
  /\ IF group = "schema" THEN TRUE ELSE SchemaIdle
  /\ IF group = "connectors" THEN TRUE ELSE DataConnectorsIdle
  /\ IF group = "objecttype" THEN TRUE ELSE ObjectTypeIdle
  /\ IF group = "aggregate" THEN TRUE ELSE AggregateIdle
  /\ IF group = "zip" THEN TRUE ELSE ZipIdle

\* ... and their variables stay as they are
LaterUnchangedExcept(group) ==
  /\ IF group = "pipeline" THEN TRUE ELSE UNCHANGED pipelineVars
  /\ IF group = "collect" THEN TRUE ELSE UNCHANGED collectVars
  /\ IF group = "relationships" THEN TRUE ELSE UNCHANGED relationshipVars
  /\ IF group = "select_many" THEN TRUE ELSE UNCHANGED selectManyVars
  /\ IF group = "schema" THEN TRUE ELSE UNCHANGED schemaVars
  /\ IF group = "connectors" THEN TRUE ELSE UNCHANGED dataConnectorsVars
  /\ IF group = "objecttype" THEN TRUE ELSE UNCHANGED objectTypeVars
  /\ IF group = "aggregate" THEN TRUE ELSE UNCHANGED aggregateVars
  /\ IF group = "zip" THEN TRUE ELSE UNCHANGED zipVars

LaterIdle == LaterIdleExcept("none")

\* the functions modelled above are idle
EarlierIdle ==
  /\ BooleanExpressionIdle
  /\ TypeMappingIdle
  /\ CommandIdle
  /\ LinkIdle
  /\ FieldIdle

OtherIdle ==
  /\ EarlierIdle
  /\ LaterIdle

Init ==
  /\ JoinIdle
  /\ ResolveIdle
  /\ OtherIdle
  /\ ir \in SeqsUpTo(RootFields, MaxFields)
  /\ pc = "request"
  /\ request_plan = NoPlan
  /\ tasks = <<>>
  /\ mutation_queue = <<>>
  /\ in_flight = NoAlias
  /\ executed_root_fields = <<>>
  /\ ndc_log = <<>>
  /\ root_fields = <<>>
  /\ response = ResponsePartial(<<>>, <<>>)

GenerateRequestPlan ==
  /\ pc = "request"
  /\ request_plan' = generate_request_plan(ir)
  /\ pc' = IF request_plan'.tag = "Err" THEN "plan_error" ELSE "planned"
  /\ UNCHANGED <<ir, tasks, mutation_queue, in_flight, executed_root_fields,
                 ndc_log, root_fields, response>>
  /\ UNCHANGED <<joinVars, resolveVars, otherVars>>

\* execute_mutation_plan from its start to its first await: the __typename
\* fields are resolved, then the first field plan's NDC call is issued
ExecuteMutationPlan ==
  /\ pc = "planned"
  /\ request_plan.value.tag = "MutationPlan"
  /\ LET mutation_plan == request_plan.value
         executed == TypeNameResults(mutation_plan.type_names)
         queue == MutationOrder(mutation_plan.nodes, 1)
     IN  /\ executed_root_fields' = executed
         /\ mutation_queue' = queue
         /\ IF queue = <<>>
              THEN /\ root_fields' = CollectRootFields(executed, 1, <<>>)
                   /\ pc' = "executed"
                   /\ UNCHANGED <<in_flight, ndc_log>>
              ELSE /\ in_flight' = Head(queue).alias
                   /\ ndc_log' = Append(ndc_log, NdcIssue(Head(queue).alias))
                   /\ pc' = "mutation"
                   /\ UNCHANGED root_fields
  /\ UNCHANGED <<ir, request_plan, tasks, response>>
  /\ UNCHANGED <<joinVars, resolveVars, otherVars>>

\* the awaited execute_mutation_field_plan returns: its result is pushed, and
\* the loops go on to the next field plan's NDC call, or to the end
MutationFieldCompletes ==
  /\ pc = "mutation"
  /\ in_flight # NoAlias
  /\ \E ok \in BOOLEAN :
       LET field_plan == Head(mutation_queue)
           executed == Append(executed_root_fields, MutationFieldResult(field_plan, ok))
           queue == Tail(mutation_queue)
       IN  /\ executed_root_fields' = executed
           /\ mutation_queue' = queue
           /\ IF queue = <<>>
                THEN /\ ndc_log' = Append(ndc_log, NdcComplete(field_plan.alias, ok))
                     /\ in_flight' = NoAlias
                     /\ root_fields' = CollectRootFields(executed, 1, <<>>)
                     /\ pc' = "executed"
                ELSE /\ ndc_log' = ndc_log \o <<NdcComplete(field_plan.alias, ok),
                                               NdcIssue(Head(queue).alias)>>
                     /\ in_flight' = Head(queue).alias
                     /\ pc' = "mutation"
                     /\ UNCHANGED root_fields
  /\ UNCHANGED <<ir, request_plan, tasks, response>>
  /\ UNCHANGED <<joinVars, resolveVars, otherVars>>

\* execute_query_plan from its start to the first poll of join_all
ExecuteQueryPlan ==
  /\ pc = "planned"
  /\ request_plan.value.tag = "QueryPlan"
  /\ LET polled == JoinAllFirstPoll(request_plan.value.query_plan)
         log == ndc_log \o IssuedByFirstPoll(polled, 1)
     IN  /\ tasks' = polled
         /\ ndc_log' = log
         /\ IF AllDone(polled)
              THEN /\ root_fields' = CollectRootFields(JoinAllOutput(polled, log), 1, <<>>)
                   /\ pc' = "executed"
              ELSE /\ pc' = "query"
                   /\ UNCHANGED root_fields
  /\ UNCHANGED <<ir, request_plan, mutation_queue, in_flight, executed_root_fields, response>>
  /\ UNCHANGED <<joinVars, resolveVars, otherVars>>

\* the NDC request of one pending task completes and join_all is polled
\* again; when it was the last pending task, join_all returns
QueryFieldCompletes ==
  /\ pc = "query"
  /\ \E k \in 1..Len(tasks), ok \in BOOLEAN :
       /\ tasks[k].state = "pending"
       /\ LET polled == [tasks EXCEPT ![k] = QueryFieldResult(tasks[k], ok)]
              log == Append(ndc_log, NdcComplete(tasks[k].alias, ok))
          IN  /\ tasks' = polled
              /\ ndc_log' = log
              /\ IF AllDone(polled)
                   THEN /\ root_fields' = CollectRootFields(JoinAllOutput(polled, log), 1, <<>>)
                        /\ pc' = "executed"
                   ELSE /\ pc' = "query"
                        /\ UNCHANGED root_fields
  /\ UNCHANGED <<ir, request_plan, mutation_queue, in_flight, executed_root_fields, response>>
  /\ UNCHANGED <<joinVars, resolveVars, otherVars>>

\* the caller turns the ExecuteQueryResult into the response
ToGraphqlResponse ==
  /\ pc = "executed"
  /\ response' = to_graphql_response(root_fields)
  /\ pc' = "responded"
  /\ UNCHANGED <<ir, request_plan, tasks, mutation_queue, in_flight,
                 executed_root_fields, ndc_log, root_fields>>
  /\ UNCHANGED <<joinVars, resolveVars, otherVars>>

Next ==
  \/ GenerateRequestPlan
  \/ ExecuteMutationPlan
  \/ MutationFieldCompletes
  \/ ExecuteQueryPlan
  \/ QueryFieldCompletes
  \/ ToGraphqlResponse

Spec == Init /\ [][Next]_vars
(***************************************************************************)
(* assign_join_ids: JoinLocations<RemoteJoin> to JoinLocations<JoinId>     *)
(***************************************************************************)
\* no request is planned or executed
ExecIdle ==
  /\ ir = <<>>
  /\ pc = "idle"
  /\ request_plan = NoPlan
  /\ tasks = <<>>
  /\ mutation_queue = <<>>
  /\ in_flight = NoAlias
  /\ executed_root_fields = <<>>
  /\ ndc_log = <<>>
  /\ root_fields = <<>>
  /\ response = ResponsePartial(<<>>, <<>>)

\* RemoteJoin: the fields that tell two remote joins apart
RemoteJoins ==
  [target_data_connector : DataConnectors, join_mapping : {"m1", "m2"},
   target_ndc_ir : {"q"}, process_response_as : {"Array"}]

NoRemoteJoin ==
  [target_data_connector |-> NoConnector, join_mapping |-> "none",
   target_ndc_ir |-> "none", process_response_as |-> "none"]

NoJoinId == 0

\* JoinNode<RemoteJoin>
LocalNode(kind) == [tag |-> "Local", kind |-> kind, remote_join |-> NoRemoteJoin]

RemoteNode(remote_join) == [tag |-> "Remote", kind |-> "none", remote_join |-> remote_join]

JoinNodes ==
  {LocalNode("NestedData"), LocalNode("LocalRelationship")}
    \cup {RemoteNode(rj) : rj \in RemoteJoins}

\* a Local node that forgets its LocationKind
LocalIdNodeNestedData(kind) == [tag |-> "Local", kind |-> "NestedData", join_id |-> NoJoinId]

\* JoinNode<JoinId>
LocalIdNode(kind) == [tag |-> "Local", kind |-> kind, join_id |-> NoJoinId]

RemoteIdNode(join_id) == [tag |-> "Remote", kind |-> "none", join_id |-> join_id]

\* JoinLocations with n Location nodes in all: an IndexMap of Locations, each
\* a join node and the JoinLocations under it (rest). The key of a Location
\* is its place in the map.
RECURSIVE JoinLocationsOfSize(_)
JoinLocationsOfSize(n) ==
  IF n = 0
    THEN {<<>>}
    ELSE UNION {
           {<<[join_node |-> node, rest |-> rest]>> \o others :
              node \in JoinNodes,
              rest \in JoinLocationsOfSize(k - 1),
              others \in JoinLocationsOfSize(n - k)} : k \in 1..n}

\* #[derive(PartialEq)] of RemoteJoin: field by field
RemoteJoinEq(a, b) ==
  /\ a.target_ndc_ir = b.target_ndc_ir
  /\ a.target_data_connector = b.target_data_connector
  /\ a.join_mapping = b.join_mapping
  /\ a.process_response_as = b.process_response_as

\* RemoteJoinCounter::new
NewRemoteJoinCounter == [remote_joins |-> <<>>, counter |-> 0]

\* MonotonicCounter::get_next: the counter after the call is the id returned
get_next(counter) == counter + 1

\* assign_join_id that never looks the remote join up
assign_join_id_always_new(remote_join, state) ==
  LET next_id == get_next(state.counter)
  IN  [join_id |-> next_id,
       state |-> [remote_joins |-> Append(state.remote_joins,
                                          [remote_join |-> remote_join, join_id |-> next_id]),
                  counter |-> next_id]]

\* assign_join_id: the id and the state afterwards
assign_join_id(remote_join, state) ==
  LET found == {k \in 1..Len(state.remote_joins) :
                  RemoteJoinEq(state.remote_joins[k].remote_join, remote_join)}
  IN  IF found = {}
        THEN LET next_id == get_next(state.counter)
             IN  [join_id |-> next_id,
                  state |-> [remote_joins |-> Append(state.remote_joins,
                                                     [remote_join |-> remote_join,
                                                      join_id |-> next_id]),
                             counter |-> next_id]]
        ELSE LET first == CHOOSE k \in found : \A j \in found : k <= j
             IN  [join_id |-> state.remote_joins[first].join_id, state |-> state]

\* assign_join_ids, from the k-th Location of the map on: the new Locations
\* and the state afterwards. A Location's node gets its id, then its rest is
\* walked, then the Locations after it.
RECURSIVE AssignLocations(_, _, _)
AssignLocations(locations, k, state) ==
  IF k > Len(locations)
    THEN [locations |-> <<>>, state |-> state]
    ELSE LET location == locations[k]
             assigned == IF location.join_node.tag = "Local"
                           THEN [node |-> LocalIdNode(location.join_node.kind), state |-> state]
                           ELSE LET a == assign_join_id(location.join_node.remote_join, state)
                                IN  [node |-> RemoteIdNode(a.join_id), state |-> a.state]
             rest == AssignLocations(location.rest, 1, assigned.state)
             others == AssignLocations(locations, k + 1, rest.state)
         IN  [locations |-> <<[join_node |-> assigned.node, rest |-> rest.locations]>>
                              \o others.locations,
              state |-> others.state]

assign_join_ids(locations, state) == AssignLocations(locations, 1, state)

\* the largest number of Location nodes of one JoinLocations tree
MaxJoinNodes == 3

InitJoin ==
  /\ ExecIdle
  /\ ResolveIdle
  /\ OtherIdle
  /\ join_locations \in UNION {JoinLocationsOfSize(n) : n \in 0..MaxJoinNodes}
  /\ join_ids = <<>>
  /\ join_state = NewRemoteJoinCounter
  /\ join_pc = "planned"

\* assign_with_join_ids up to the call of zip_with_join_ids
AssignJoinIds ==
  /\ join_pc = "planned"
  /\ LET r == assign_join_ids(join_locations, NewRemoteJoinCounter)
     IN  /\ join_ids' = r.locations
         /\ join_state' = r.state
  /\ join_pc' = "assigned"
  /\ UNCHANGED <<join_locations, execVars, resolveVars, otherVars>>

\* an IndexMap: its entries in insertion order; the key of a Location of a
\* JoinLocations is its place in the tree it was built in
IndexMapOf(locations) ==
  [k \in 1..Len(locations) |-> [key |-> k, value |-> locations[k]]]

\* IndexMap::swap_remove: the value of the key, if any, and the map with that
\* entry replaced by the last one
swap_remove(map, key) ==
  LET found == {i \in 1..Len(map) : map[i].key = key}
  IN  IF found = {}
        THEN [removed |-> NoneValue, map |-> map]
        ELSE LET i == CHOOSE j \in found : TRUE
             IN  [removed |-> Some(map[i].value),
                  map |-> [j \in 1..(Len(map) - 1) |->
                             IF j = i THEN map[Len(map)] ELSE map[j]]]

\* JoinNode<(RemoteJoin, JoinId)>
ZippedLocalNode(kind) ==
  [tag |-> "Local", kind |-> kind, remote_join |-> NoRemoteJoin, join_id |-> NoJoinId]

ZippedRemoteNode(remote_join, join_id) ==
  [tag |-> "Remote", kind |-> "none", remote_join |-> remote_join, join_id |-> join_id]

\* the match on the two join nodes of one key
ZipNode(join_node, join_id_node) ==
  IF join_node.tag = "Remote" /\ join_id_node.tag = "Remote"
    THEN Ok(ZippedRemoteNode(join_node.remote_join, join_id_node.join_id))
    ELSE IF /\ join_node.tag = "Local" /\ join_id_node.tag = "Local"
            /\ join_node.kind = "NestedData" /\ join_id_node.kind = "NestedData"
      THEN Ok(ZippedLocalNode("NestedData"))
      ELSE IF /\ join_node.tag = "Local" /\ join_id_node.tag = "Local"
              /\ join_node.kind = "LocalRelationship"
              /\ join_id_node.kind = "LocalRelationship"
        THEN Ok(ZippedLocalNode("LocalRelationship"))
        ELSE Err("unexpected join node mismatch")

\* the loop of zip_with_join_ids from the k-th entry on, with what is left
\* of the join ids map
RECURSIVE ZipLocations(_, _, _)
ZipLocations(locations_map, k, ids_map) ==
  IF k > Len(locations_map)
    THEN Ok(<<>>)
    ELSE LET entry == locations_map[k]
             join_id_location == swap_remove(ids_map, entry.key)
         IN  IF join_id_location.removed.tag = "None"
               THEN Err("unexpected; could not find {key} in join ids tree")
               ELSE LET new_node == ZipNode(entry.value.join_node,
                                            join_id_location.removed.value.join_node)
                    IN  IF new_node.tag = "Err"
                          THEN new_node
                          ELSE LET new_rest ==
                                     ZipLocations(
                                       IndexMapOf(entry.value.rest), 1,
                                       IndexMapOf(join_id_location.removed.value.rest))
                               IN  IF new_rest.tag = "Err"
                                     THEN new_rest
                                     ELSE LET others == ZipLocations(locations_map, k + 1,
                                                                     join_id_location.map)
                                          IN  IF others.tag = "Err"
                                                THEN others
                                                ELSE Ok(<<[key |-> entry.key,
                                                           value |->
                                                             [join_node |-> new_node.value,
                                                              rest |-> new_rest.value]]>>
                                                        \o others.value)

zip_with_join_ids(locations, ids) ==
  ZipLocations(IndexMapOf(locations), 1, IndexMapOf(ids))

\* assign_with_join_ids from the call of zip_with_join_ids on
ZipWithJoinIds ==
  /\ join_pc = "assigned"
  /\ zipped_join_locations' = zip_with_join_ids(join_locations, join_ids)
  /\ join_pc' = "zipped"
  /\ UNCHANGED <<join_locations, join_ids, join_state, execVars, resolveVars, earlierVars>>
  /\ LaterUnchangedExcept("zip")

NextJoin ==
  \/ AssignJoinIds
  \/ ZipWithJoinIds

SpecJoin == InitJoin /\ [][NextJoin]_vars

(***************************************************************************)
(* Metadata resolution: stages::resolve and stages::apollo::resolve        *)
(***************************************************************************)
\* the largest number of resolutions of one document
MaxResolutions == 2

ObjectTypeNames == <<"A", "B">>

\* an object type of the document: whether it configures a non-empty
\* globalIdFields list and whether it configures apolloFederation keys
ObjectTypeDefinitions(name) ==
  [name : {name}, global_id_fields : BOOLEAN, apollo_federation : BOOLEAN]

\* the model of an object type, if any: "none", or whether it is the type's
\* globalIdSource and its apollo federation entitySource
ModelDefinitions(name) ==
  {[data_type |-> name, present |-> FALSE, global_id_source |-> FALSE, entity_source |-> FALSE]}
    \cup [data_type : {name}, present : {TRUE}, global_id_source : BOOLEAN,
          entity_source : BOOLEAN]

\* resolve calling apollo::resolve before models::resolve
StageOrderApolloBeforeModels ==
  <<"graphql_config", "data_connectors", "object_types", "scalar_types",
    "data_connector_scalar_types", "type_permissions", "boolean_expressions",
    "apollo", "models", "commands", "relationships", "command_permissions",
    "model_permissions", "roles">>

\* the stages of resolve, in the order resolve runs them
StageOrder ==
  <<"graphql_config", "data_connectors", "object_types", "scalar_types",
    "data_connector_scalar_types", "type_permissions", "boolean_expressions",
    "models", "commands", "apollo", "relationships", "command_permissions",
    "model_permissions", "roles">>

\* the stages that return a Result
FallibleStages == {StageOrder[k] : k \in 1..Len(StageOrder)} \ {"roles"}

\* a metadata document: its object types and models in the order of the
\* document, and the stage, if any, that rejects something else in it
MetadataDocuments ==
  [object_types : {<<a, b>> : a \in ObjectTypeDefinitions("A"), b \in ObjectTypeDefinitions("B")},
   models : {<<a, b>> : a \in ModelDefinitions("A"), b \in ModelDefinitions("B")},
   rejected_by : (FallibleStages \ {"apollo"}) \cup {"none"}]

ResolveError(kind, subject) == [kind |-> kind, subject |-> subject]

\* object_types::resolve: global_id_enabled_types and
\* apollo_federation_entity_enabled_types as resolve_object_type fills them:
\* a type with global id fields maps to Vec::new(), one with keys to None
GlobalIdEnabledTypes(doc) ==
  {doc.object_types[k].name : k \in {j \in 1..Len(doc.object_types) :
                                       doc.object_types[j].global_id_fields}}

ApolloFederationEntityEnabledTypes(doc) ==
  {doc.object_types[k].name : k \in {j \in 1..Len(doc.object_types) :
                                       doc.object_types[j].apollo_federation}}

\* models::resolve: a model that is a source of a type not registered is
\* rejected; otherwise the model is recorded under its data type
ModelsStageError(doc) ==
  LET bad == {k \in 1..Len(doc.models) :
                \/ /\ doc.models[k].global_id_source
                   /\ doc.models[k].data_type \notin GlobalIdEnabledTypes(doc)
                \/ /\ doc.models[k].entity_source
                   /\ doc.models[k].data_type \notin ApolloFederationEntityEnabledTypes(doc)}
  IN  IF bad = {}
        THEN "none"
        ELSE LET first == CHOOSE k \in bad : \A j \in bad : k <= j
             IN  IF /\ doc.models[first].global_id_source
                    /\ doc.models[first].data_type \notin GlobalIdEnabledTypes(doc)
                   THEN "NoGlobalFieldsPresentInGlobalIdSource"
                   ELSE "NoKeysFieldsPresentInEntitySource"

\* the maps handed to apollo::resolve: type -> the models that are its
\* global id source (as a set of model places), type -> whether it has an
\* entity source
GlobalIdSources(doc) ==
  [t \in GlobalIdEnabledTypes(doc) |->
     {k \in 1..Len(doc.models) : doc.models[k].data_type = t /\ doc.models[k].global_id_source}]

EntitySources(doc) ==
  [t \in ApolloFederationEntityEnabledTypes(doc) |->
     \E k \in 1..Len(doc.models) : doc.models[k].data_type = t /\ doc.models[k].entity_source]

\* apollo::resolve without its second loop
ApolloResolveGlobalIdOnly(global_id_enabled_types, apollo_federation_entity_enabled_types) ==
  LET no_global_id_source == {t \in DOMAIN global_id_enabled_types :
                                global_id_enabled_types[t] = {}}
  IN  IF no_global_id_source # {}
        THEN {Err(ResolveError("GlobalIdSourceNotDefined", t)) : t \in no_global_id_source}
        ELSE {Ok("unit")}

\* apollo::resolve: the results it can return. Both maps are HashMaps and
\* each loop returns at the first entry it meets that lacks a source: the
\* order of a HashMap's entries is not determined by its contents, so the
\* entry met first is any of them.
ApolloResolve(global_id_enabled_types, apollo_federation_entity_enabled_types) ==
  LET no_global_id_source == {t \in DOMAIN global_id_enabled_types :
                                global_id_enabled_types[t] = {}}
      no_entity_source == {t \in DOMAIN apollo_federation_entity_enabled_types :
                             ~apollo_federation_entity_enabled_types[t]}
  IN  IF no_global_id_source # {}
        THEN {Err(ResolveError("GlobalIdSourceNotDefined", t)) : t \in no_global_id_source}
        ELSE IF no_entity_source # {}
          THEN {Err(ResolveError("ApolloFederationEntitySourceNotDefined", t)) :
                  t \in no_entity_source}
          ELSE {Ok("unit")}

\* the Metadata of a document that every stage accepts
ResolvedMetadata(doc) == [object_types |-> doc.object_types, models |-> doc.models]

\* resolve from its k-th stage on: the results it can return
RECURSIVE RunStages(_, _)
RunStages(doc, k) ==
  IF k > Len(StageOrder)
    THEN {Ok(ResolvedMetadata(doc))}
    ELSE LET stage == StageOrder[k]
         IN  IF stage = "apollo"
               THEN LET results == ApolloResolve(GlobalIdSources(doc), EntitySources(doc))
                    IN  {r \in results : r.tag = "Err"}
                          \cup (IF Ok("unit") \in results THEN RunStages(doc, k + 1) ELSE {})
               ELSE IF doc.rejected_by = stage
                 THEN {Err(ResolveError("StageError", stage))}
                 ELSE IF stage = "models" /\ ModelsStageError(doc) # "none"
                   THEN {Err(ResolveError(ModelsStageError(doc), "model"))}
                   ELSE RunStages(doc, k + 1)

\* stages::resolve
resolve(doc) == RunStages(doc, 1)

InitResolve ==
  /\ ExecIdle
  /\ JoinIdle
  /\ OtherIdle
  /\ metadata \in MetadataDocuments
  /\ resolved = <<>>

\* the document is resolved once more
Resolve ==
  /\ Len(resolved) < MaxResolutions
  /\ \E outcome \in resolve(metadata) : resolved' = Append(resolved, outcome)
  /\ UNCHANGED <<metadata, execVars, joinVars, otherVars>>

NextResolve == Resolve

SpecResolve == InitResolve /\ [][NextResolve]_vars

(***************************************************************************)
(* resolve_object_boolean_expression_type (metadata/resolved/types.rs)     *)
(***************************************************************************)
\* the largest number of entries of one comparable_fields list
MaxComparableFields == 3

\* object_types: the one object type "T" and its fields
ObjectTypeFields(object_type) == IF object_type = "T" THEN {"a", "b"} ELSE {}

KnownObjectTypes == {"T"}

\* data_connectors: the one data connector "X" and the object types of its schema
KnownDataConnectors == {"X"}

ConnectorObjectTypes(data_connector) == IF data_connector = "X" THEN {"t"} ELSE {}

\* existing_graphql_types before the call
ExistingGraphqlTypes == {"Taken"}

\* ComparableField: field_name and operators (EnableAllOrSpecific)
ComparableFields ==
  [field_name : {"a", "b", "c"},
   operators : {"EnableAll(true)", "EnableAll(false)", "Specific"}]

\* ObjectBooleanExpressionTypeV1, and whether data_connector_type_mappings
\* holds a mapping for (object type, data connector, connector object type)
BooleanExpressionDefinitions ==
  [object_type : {"T", "U"},
   data_connector_name : {"X", "Z"},
   data_connector_object_type : {"t", "u"},
   comparable_fields : SeqsUpTo(ComparableFields, MaxComparableFields),
   graphql : {"none", "T_bool_exp", "Taken", "not a name"},
   type_mapping_defined : BOOLEAN]

\* mk_name: ast::Name::from_str accepts a GraphQL name only
mk_name(name) ==
  IF name \in {"T_bool_exp", "Taken"}
    THEN Ok(name)
    ELSE Err(ResolveError("InvalidGraphQlName", name))

\* store_new_graphql_type: the result and the set afterwards
store_new_graphql_type(existing_graphql_types, new_graphql_type) ==
  IF new_graphql_type \in existing_graphql_types
    THEN [result |-> Err(ResolveError("ConflictingGraphQlType", new_graphql_type)),
          existing_graphql_types |-> existing_graphql_types]
    ELSE [result |-> Ok("unit"),
          existing_graphql_types |-> existing_graphql_types \cup {new_graphql_type}]

UseEnableAll ==
  "Field level comparison operator configuration is not fully supported yet. Please use enableAll:true."

AddAllFields ==
  "Field level comparison operator configuration is not fully supported yet. Please add all fields in filterable_fields."

\* the loop over comparable_fields, from its k-th entry on: the first error
RECURSIVE ValidateComparableFields(_, _, _)
ValidateComparableFields(comparable_fields, fields, k) ==
  IF k > Len(comparable_fields)
    THEN Ok("unit")
    ELSE IF comparable_fields[k].field_name \notin fields
      THEN Err(ResolveError("UnknownFieldInObjectBooleanExpressionType",
                            comparable_fields[k].field_name))
      ELSE IF comparable_fields[k].operators # "EnableAll(true)"
        THEN Err(ResolveError("UnsupportedFeature", UseEnableAll))
        ELSE ValidateComparableFields(comparable_fields, fields, k + 1)

\* resolve_object_boolean_expression_type: the Result and
\* existing_graphql_types afterwards
resolve_object_boolean_expression_type(definition, existing_graphql_types) ==
  LET fail(e) == [result |-> Err(e), existing_graphql_types |-> existing_graphql_types]
      fields == ObjectTypeFields(definition.object_type)
      validated == ValidateComparableFields(definition.comparable_fields, fields, 1)
  IN  IF definition.object_type \notin KnownObjectTypes
        THEN fail(ResolveError("UnknownTypeInObjectBooleanExpressionType",
                               definition.object_type))
      ELSE IF definition.data_connector_name \notin KnownDataConnectors
        THEN fail(ResolveError("UnknownDataConnectorInObjectBooleanExpressionType",
                               definition.data_connector_name))
      ELSE IF definition.data_connector_object_type
                \notin ConnectorObjectTypes(definition.data_connector_name)
        THEN fail(ResolveError("UnknownDataConnectorTypeInObjectBooleanExpressionType",
                               definition.data_connector_object_type))
      ELSE IF ~definition.type_mapping_defined
        THEN fail(ResolveError("NoDataConnectorTypeMappingForObjectTypeInBooleanExpression",
                               definition.object_type))
      ELSE IF validated.tag = "Err"
        THEN fail(validated.error)
      ELSE IF Len(definition.comparable_fields) # Cardinality(fields)
        THEN fail(ResolveError("UnsupportedFeature", AddAllFields))
      ELSE IF definition.graphql = "none"
        THEN [result |-> Ok([object_type |-> definition.object_type,
                             data_connector_name |-> definition.data_connector_name,
                             data_connector_object_type |-> definition.data_connector_object_type,
                             graphql |-> "none"]),
              existing_graphql_types |-> existing_graphql_types]
      ELSE IF mk_name(definition.graphql).tag = "Err"
        THEN fail(mk_name(definition.graphql).error)
      ELSE LET stored == store_new_graphql_type(existing_graphql_types,
                                                mk_name(definition.graphql).value)
           IN  IF stored.result.tag = "Err"
                 THEN stored
                 ELSE [result |-> Ok([object_type |-> definition.object_type,
                                      data_connector_name |-> definition.data_connector_name,
                                      data_connector_object_type |->
                                        definition.data_connector_object_type,
                                      graphql |-> mk_name(definition.graphql).value]),
                       existing_graphql_types |-> stored.existing_graphql_types]

InitBooleanExpression ==
  /\ ExecIdle
  /\ JoinIdle
  /\ ResolveIdle
  /\ TypeMappingIdle
  /\ CommandIdle
  /\ LinkIdle
  /\ FieldIdle
  /\ LaterIdle
  /\ boolean_expression \in BooleanExpressionDefinitions
  /\ boolean_expression_result =
       [result |-> NotReturned, existing_graphql_types |-> ExistingGraphqlTypes]

ResolveObjectBooleanExpressionType ==
  /\ boolean_expression_result.result = NotReturned
  /\ boolean_expression_result' =
       resolve_object_boolean_expression_type(boolean_expression, ExistingGraphqlTypes)
  /\ UNCHANGED <<boolean_expression, execVars, joinVars, resolveVars,
                 typeMappingVars, commandVars, linkVars, fieldVars,
                 laterVars>>

NextBooleanExpression == ResolveObjectBooleanExpressionType

SpecBooleanExpression == InitBooleanExpression /\ [][NextBooleanExpression]_vars

(***************************************************************************)
(* resolve_data_connector_type_mapping (metadata/resolved/types.rs)        *)
(***************************************************************************)
\* the field names a document can use, and the columns it can map them to
FieldNames == {"a", "b", "z"}

ColumnNames == {"a", "col_b", "nope"}

\* type_representation.fields.keys(): the fields of the object type, in the
\* order of the IndexMap
TypeRepresentationFields == {<<>>, <<"a">>, <<"b">>, <<"a", "b">>, <<"b", "a">>}

\* the columns of the NDC object type "t" of data connector "X", with their types
NdcObjectTypeFields(ndc_object_type) ==
  IF ndc_object_type = "t" THEN {"a", "col_b"} ELSE {}

NdcColumnType(column) == IF column = "a" THEN "Int" ELSE "String"

\* DataConnectorTypeMapping and the ObjectTypeRepresentation it is for;
\* field_mapping is a map from field names to FieldMapping::Column names
TypeMappingArguments ==
  [data_connector_name : {"X", "Z"},
   data_connector_object_type : {"t", "u"},
   fields : TypeRepresentationFields,
   field_mapping : UNION {[names -> ColumnNames] : names \in SUBSET FieldNames}]

TypeMappingValidationError(kind, subject) == [kind |-> kind, subject |-> subject]

\* get_column
get_column(ndc_type, field_name, column) ==
  IF column \in NdcObjectTypeFields(ndc_type)
    THEN Ok([name |-> column, type |-> NdcColumnType(column)])
    ELSE Err(TypeMappingValidationError("UnknownTargetColumn",
                                        [field_name |-> field_name, column_name |-> column]))

\* the loop over the fields of the object type, from the k-th field on:
\* Err at the first field that fails, or the maps after the last field
RECURSIVE ResolveFieldMappings(_, _, _, _, _)
ResolveFieldMappings(fields, k, ndc_type, unconsumed_field_mappings, resolved_field_mappings) ==
  IF k > Len(fields)
    THEN Ok([unconsumed |-> unconsumed_field_mappings, resolved |-> resolved_field_mappings])
    ELSE LET field_name == fields[k]
             mapped == field_name \in DOMAIN unconsumed_field_mappings
             column == IF mapped THEN unconsumed_field_mappings[field_name] ELSE field_name
             remaining == [f \in (DOMAIN unconsumed_field_mappings) \ {field_name} |->
                             unconsumed_field_mappings[f]]
             source_column == get_column(ndc_type, field_name, column)
         IN  IF source_column.tag = "Err"
               THEN source_column
               ELSE IF field_name \in DOMAIN resolved_field_mappings
                 THEN Err(TypeMappingValidationError("DuplicateFieldMapping", field_name))
                 ELSE ResolveFieldMappings(fields, k + 1, ndc_type, remaining,
                        [f \in (DOMAIN resolved_field_mappings) \cup {field_name} |->
                           IF f = field_name
                             THEN [column |-> column, column_type |-> source_column.value.type]
                             ELSE resolved_field_mappings[f]])

\* resolve_data_connector_type_mapping that lets unconsumed mappings pass
resolve_data_connector_type_mapping_ignoring_unconsumed(arguments) ==
  IF arguments.data_connector_name \notin KnownDataConnectors
    THEN Err(TypeMappingValidationError("UnknownDataConnector", arguments.data_connector_name))
  ELSE IF arguments.data_connector_object_type
            \notin ConnectorObjectTypes(arguments.data_connector_name)
    THEN Err(TypeMappingValidationError("UnknownNdcType", arguments.data_connector_object_type))
  ELSE LET walked == ResolveFieldMappings(arguments.fields, 1,
                       arguments.data_connector_object_type, arguments.field_mapping, <<>>)
       IN  IF walked.tag = "Err"
             THEN walked
             ELSE Ok([ndc_object_type_name |-> arguments.data_connector_object_type,
                      field_mappings |-> walked.value.resolved])

\* resolve_data_connector_type_mapping
resolve_data_connector_type_mapping(arguments) ==
  IF arguments.data_connector_name \notin KnownDataConnectors
    THEN Err(TypeMappingValidationError("UnknownDataConnector", arguments.data_connector_name))
  ELSE IF arguments.data_connector_object_type
            \notin ConnectorObjectTypes(arguments.data_connector_name)
    THEN Err(TypeMappingValidationError("UnknownNdcType", arguments.data_connector_object_type))
  ELSE LET walked == ResolveFieldMappings(arguments.fields, 1,
                       arguments.data_connector_object_type, arguments.field_mapping, <<>>)
       IN  IF walked.tag = "Err"
             THEN walked
             ELSE IF DOMAIN walked.value.unconsumed # {}
               THEN Err(TypeMappingValidationError("UnknownSourceFields",
                                                   DOMAIN walked.value.unconsumed))
               ELSE Ok([ndc_object_type_name |-> arguments.data_connector_object_type,
                        field_mappings |-> walked.value.resolved])

InitTypeMapping ==
  /\ ExecIdle
  /\ JoinIdle
  /\ ResolveIdle
  /\ BooleanExpressionIdle
  /\ CommandIdle
  /\ LinkIdle
  /\ FieldIdle
  /\ LaterIdle
  /\ type_mapping \in TypeMappingArguments
  /\ type_mapping_result = NotReturned

ResolveDataConnectorTypeMapping ==
  /\ type_mapping_result = NotReturned
  /\ type_mapping_result' = resolve_data_connector_type_mapping(type_mapping)
  /\ UNCHANGED <<type_mapping, execVars, joinVars, resolveVars,
                 booleanExpressionVars, commandVars, linkVars, fieldVars,
                 laterVars>>

NextTypeMapping == ResolveDataConnectorTypeMapping

SpecTypeMapping == InitTypeMapping /\ [][NextTypeMapping]_vars

(***************************************************************************)
(* resolve_command_source (metadata-resolve/src/stages/commands/source.rs) *)
(* and validate_ndc_command (metadata-resolve/src/helpers/ndc_validation.rs)*)
(***************************************************************************)
\* the schema of data connector "X": its procedures and functions with the
\* names of their arguments
SchemaProcedures == {"proc"}

SchemaFunctions == {"func"}

SchemaArguments(name) ==
  CASE name = "proc" -> {"a", "b", "x"}
    [] name = "func" -> {"x"}
    [] OTHER -> {}

\* the names of OpenDD arguments, in the order a BTreeMap keeps them
ArgumentOrder == <<"a", "b", "c">>

\* command.arguments: an IndexMap, so a list without repetitions
CommandArguments == {<<>>, <<"a">>, <<"b">>, <<"a", "b">>, <<"b", "a">>}

\* what resolve_command_source is given: the command, its source as the
\* document defines it, and the data connector's argument presets.
\* output: the command's output type, by what the type mappings make of it
CommandDefinitions ==
  [has_source : BOOLEAN,
   data_connector_name : {"X", "Z"},
   data_connector_command : [kind : {"Procedure", "Function"}, name : {"proc", "func"}],
   arguments : CommandArguments,
   argument_mapping : UNION {[names -> {"x", "w"}] : names \in SUBSET {"a", "b", "c"}},
   argument_presets : SUBSET {"b", "q"},
   ndc_result_type : {"object", "missing"},
   output : {"Inbuilt", "CustomMapped", "CustomUnmapped", "CollectionFails"}]

CommandError(kind, subject) == [kind |-> kind, subject |-> subject]

\* get_argument_mappings: every argument of the command gets the NDC
\* argument its mapping names, or the one named like it, which must exist;
\* a mapping left over is an error
RECURSIVE GetArgumentMappings(_, _, _, _, _)
GetArgumentMappings(arguments, k, unconsumed, ndc_arguments, resolved_argument_mappings) ==
  IF k > Len(arguments)
    THEN IF DOMAIN unconsumed # {}
           THEN Err(CommandError("UnknownArguments", DOMAIN unconsumed))
           ELSE Ok(resolved_argument_mappings)
    ELSE LET argument_name == arguments[k]
             ndc_name == IF argument_name \in DOMAIN unconsumed
                           THEN unconsumed[argument_name]
                           ELSE argument_name
         IN  IF ndc_name \notin ndc_arguments
               THEN Err(CommandError("UnknownNdcArgument", argument_name))
               ELSE GetArgumentMappings(arguments, k + 1,
                      [n \in (DOMAIN unconsumed) \ {argument_name} |-> unconsumed[n]],
                      ndc_arguments,
                      [n \in (DOMAIN resolved_argument_mappings) \cup {argument_name} |->
                         IF n = argument_name THEN ndc_name ELSE resolved_argument_mappings[n]])

get_argument_mappings(arguments, argument_mapping, ndc_arguments) ==
  GetArgumentMappings(arguments, 1, argument_mapping, ndc_arguments, <<>>)

\* the loop over command_source.argument_mappings, from the k-th name of
\* the order on: the first error
RECURSIVE ValidateArgumentMappings(_, _, _, _)
ValidateArgumentMappings(argument_mappings, k, dc_link_argument_presets, ndc_arguments) ==
  IF k > Len(ArgumentOrder)
    THEN Ok("unit")
    ELSE LET open_dd_argument_name == ArgumentOrder[k]
         IN  IF open_dd_argument_name \notin DOMAIN argument_mappings
               THEN ValidateArgumentMappings(argument_mappings, k + 1,
                                             dc_link_argument_presets, ndc_arguments)
             ELSE IF open_dd_argument_name \in dc_link_argument_presets
               THEN Err(CommandError("CannotUseDataConnectorLinkArgumentPresetInCommand",
                                     open_dd_argument_name))
             ELSE IF argument_mappings[open_dd_argument_name] \notin ndc_arguments
               THEN Err(CommandError("NoSuchArgumentForCommand",
                                     argument_mappings[open_dd_argument_name]))
             ELSE ValidateArgumentMappings(argument_mappings, k + 1,
                                           dc_link_argument_presets, ndc_arguments)

\* the checks of validate_ndc_command after the loop: the NDC result type
\* and the type mapping of a custom output type
ValidateResultType(command_source) ==
  IF command_source.ndc_result_type = "missing"
    THEN Err(CommandError("NoSuchType", command_source.ndc_result_type))
    ELSE IF command_source.output = "CustomUnmapped"
      THEN Err(CommandError("UnknownCommandTypeMapping", command_source.output))
      ELSE Ok("unit")

\* validate_ndc_command without the check of the argument presets
validate_ndc_command_ignoring_presets(command_source) ==
  IF /\ command_source.source.kind = "Procedure"
     /\ command_source.source.name \notin SchemaProcedures
    THEN Err(CommandError("NoSuchProcedure", command_source.source.name))
  ELSE IF /\ command_source.source.kind = "Function"
          /\ command_source.source.name \notin SchemaFunctions
    THEN Err(CommandError("NoSuchFunction", command_source.source.name))
  ELSE LET mapped == ValidateArgumentMappings(command_source.argument_mappings, 1, {},
                                              SchemaArguments(command_source.source.name))
       IN  IF mapped.tag = "Err" THEN mapped ELSE ValidateResultType(command_source)

\* validate_ndc_command
validate_ndc_command(command_source) ==
  IF /\ command_source.source.kind = "Procedure"
     /\ command_source.source.name \notin SchemaProcedures
    THEN Err(CommandError("NoSuchProcedure", command_source.source.name))
  ELSE IF /\ command_source.source.kind = "Function"
          /\ command_source.source.name \notin SchemaFunctions
    THEN Err(CommandError("NoSuchFunction", command_source.source.name))
  ELSE LET mapped == ValidateArgumentMappings(command_source.argument_mappings, 1,
                                              command_source.argument_presets,
                                              SchemaArguments(command_source.source.name))
       IN  IF mapped.tag = "Err" THEN mapped ELSE ValidateResultType(command_source)

\* resolve_command_source did not get as far as validate_ndc_command
NotValidated(error) ==
  [resolved |-> Err(error), validated |-> NotReturned, argument_mappings |-> <<>>]

\* resolve_command_source: its Result, the Result of validate_ndc_command
\* if it was called, and the argument_mappings of the CommandSource it got
resolve_command_source(command) ==
  LET source == command.data_connector_command
      known == \/ source.kind = "Procedure" /\ source.name \in SchemaProcedures
               \/ source.kind = "Function" /\ source.name \in SchemaFunctions
      mappings == get_argument_mappings(command.arguments, command.argument_mapping,
                                        SchemaArguments(source.name))
  IN  IF command.has_source
        THEN NotValidated(CommandError("DuplicateCommandSourceDefinition", "command"))
      ELSE IF command.data_connector_name \notin KnownDataConnectors
        THEN NotValidated(CommandError("UnknownCommandDataConnector",
                                       command.data_connector_name))
      ELSE IF ~known
        THEN NotValidated(CommandError(IF source.kind = "Procedure"
                                         THEN "UnknownCommandProcedure"
                                         ELSE "UnknownCommandFunction", source.name))
      ELSE IF mappings.tag = "Err"
        THEN NotValidated(CommandError(IF source.kind = "Procedure"
                                         THEN "CommandProcedureArgumentMappingError"
                                         ELSE "CommandFunctionArgumentMappingError",
                                       mappings.error))
      ELSE IF command.output \in {"CustomMapped", "CollectionFails"}
              /\ command.ndc_result_type = "missing"
        THEN NotValidated(CommandError("CommandTypeMappingCollectionError", "NoSuchType"))
      ELSE IF command.output = "CollectionFails"
        THEN NotValidated(CommandError("CommandTypeMappingCollectionError", "MappingNotDefined"))
      ELSE LET command_source == [source |-> source,
                                  argument_mappings |-> mappings.value,
                                  argument_presets |-> command.argument_presets,
                                  ndc_result_type |-> command.ndc_result_type,
                                  output |-> command.output]
               validated == validate_ndc_command(command_source)
           IN  [resolved |-> IF validated.tag = "Err" THEN validated ELSE Ok(command_source),
                validated |-> validated,
                argument_mappings |-> mappings.value]

NotResolved == [resolved |-> NotReturned, validated |-> NotReturned, argument_mappings |-> <<>>]

InitCommand ==
  /\ ExecIdle
  /\ JoinIdle
  /\ ResolveIdle
  /\ BooleanExpressionIdle
  /\ TypeMappingIdle
  /\ LinkIdle
  /\ FieldIdle
  /\ LaterIdle
  /\ command_definition \in CommandDefinitions
  /\ command_result = NotResolved

ResolveCommandSource ==
  /\ command_result = NotResolved
  /\ command_result' = resolve_command_source(command_definition)
  /\ UNCHANGED <<command_definition, execVars, joinVars, resolveVars,
                 booleanExpressionVars, typeMappingVars, linkVars, fieldVars,
                 laterVars>>

NextCommand == ResolveCommandSource

SpecCommand == InitCommand /\ [][NextCommand]_vars

(***************************************************************************)
(* DataConnectorLink (open-dds/src/data_connector.rs, data_connector/v1.rs)*)
(***************************************************************************)
\* a key of a JSON object that may be absent, with the list it holds
JsonOptionalLists(values) == {[present |-> FALSE, value |-> <<>>]} \cup [present : {TRUE}, value : values]

\* the JSON object of a DataConnectorLinkV1
LinkDefinitionDocuments ==
  [name : {"foo", "bar"},
   url : {"singleUrl", "readWriteUrls"},
   headers : JsonOptionalLists({<<>>, <<"Authorization">>}),
   schema : {"v0.1", "v0.2"},
   argumentPresets : JsonOptionalLists({<<>>, <<"headers">>}),
   responseHeaders : JsonOptionalLists({<<"headersField", "resultField">>})]

\* the JSON object of a versioned DataConnectorLink
LinkDocuments == [version : {"v1", "v2"}, definition : LinkDefinitionDocuments]

\* DataConnectorLinkV1 from its JSON object: headers and argument_presets
\* are #[opendd(default)], response_headers is an Option
DeserializeDataConnectorLinkV1(definition) ==
  [name |-> definition.name,
   url |-> definition.url,
   headers |-> IF definition.headers.present THEN definition.headers.value ELSE <<>>,
   schema |-> definition.schema,
   argument_presets |-> IF definition.argumentPresets.present
                          THEN definition.argumentPresets.value
                          ELSE <<>>,
   response_headers |-> IF definition.responseHeaders.present
                          THEN [tag |-> "Some", value |-> definition.responseHeaders.value]
                          ELSE [tag |-> "None", value |-> <<>>]]

\* DataConnectorLink from its JSON object: tagged by "version", with the
\* content under "definition"; V1 is the only variant
DeserializeDataConnectorLink(document) ==
  IF document.version = "v1"
    THEN Ok([variant |-> "V1", v1 |-> DeserializeDataConnectorLinkV1(document.definition)])
    ELSE Err(ResolveError("UnknownVersion", document.version))

\* an upgrade that rebuilds the definition with the default argument presets
upgrade_with_default_presets(link) == [link.v1 EXCEPT !.argument_presets = <<>>]

\* DataConnectorLink::upgrade
upgrade(link) == link.v1

NoLink ==
  [link |-> NotReturned, upgraded |-> NotReturned, definition |-> NotReturned]

InitLink ==
  /\ ExecIdle
  /\ JoinIdle
  /\ ResolveIdle
  /\ BooleanExpressionIdle
  /\ TypeMappingIdle
  /\ CommandIdle
  /\ FieldIdle
  /\ LaterIdle
  /\ link_document \in LinkDocuments
  /\ link_result = NoLink

\* the document is deserialized as a DataConnectorLink and upgraded, and its
\* definition is deserialized as a DataConnectorLinkV1
UpgradeLink ==
  /\ link_result = NoLink
  /\ LET link == DeserializeDataConnectorLink(link_document)
     IN  link_result' =
           [link |-> link,
            upgraded |-> IF link.tag = "Ok" THEN Ok(upgrade(link.value)) ELSE NotReturned,
            definition |-> Ok(DeserializeDataConnectorLinkV1(link_document.definition))]
  /\ UNCHANGED <<link_document, execVars, joinVars, resolveVars,
                 booleanExpressionVars, typeMappingVars, commandVars, fieldVars,
                 laterVars>>

NextLink == UpgradeLink

SpecLink == InitLink /\ [][NextLink]_vars

(***************************************************************************)
(* One root field with remote joins: its plan, resolve_ndc_query_execution *)
(* and resolve_ndc_mutation_execution                                      *)
(***************************************************************************)
\* the join nodes of the field's selection: a nested object, or a remote
\* relationship to the other connector
RootFieldJoinNodes ==
  {LocalNode("NestedData"),
   RemoteNode([target_data_connector |-> "Y", join_mapping |-> "m1",
               target_ndc_ir |-> "q", process_response_as |-> "Array"])}

\* the JoinLocations model_selection::ndc_ir and commands::ndc_mutation_ir
\* give for a selection, with n Location nodes in all
RECURSIVE RootFieldJoinLocationsOfSize(_)
RootFieldJoinLocationsOfSize(n) ==
  IF n = 0
    THEN {<<>>}
    ELSE UNION {
           {<<[join_node |-> node, rest |-> rest]>> \o others :
              node \in RootFieldJoinNodes,
              rest \in RootFieldJoinLocationsOfSize(k - 1),
              others \in RootFieldJoinLocationsOfSize(n - k)} : k \in 1..n}

\* a model selection or a procedure command, and the joins of its selection
RootFieldsWithJoins ==
  {[kind |-> kind, data_connector |-> "X", is_nullable |-> n, plan_ok |-> p,
    resolves_ok |-> TRUE, join_locations |-> locations] :
      kind \in {"NDCQueryExecution", "ProcedureBasedCommand"},
      n \in BOOLEAN, p \in BOOLEAN,
      locations \in UNION {RootFieldJoinLocationsOfSize(k) : k \in 0..MaxJoinNodes}}

RECURSIVE HasRemoteNode(_)
HasRemoteNode(locations) ==
  \E k \in 1..Len(locations) :
    \/ locations[k].join_node.tag = "Remote"
    \/ HasRemoteNode(locations[k].rest)

\* plan_query with generate_execution_tree: the NDCQueryExecution keeps the
\* JoinLocations, with their join ids, as execution_tree.remote_executions
PlanQueryWithJoins(alias, field) ==
  LET planned == plan_query(alias, field)
  IN  IF planned.tag = "Err"
        THEN planned
        ELSE Ok([alias |-> alias, kind |-> "NDCQueryExecution",
                 is_nullable |-> field.is_nullable,
                 join_locations |->
                   assign_join_ids(field.join_locations, NewRemoteJoinCounter).locations])

\* plan_mutation: the NDCMutationExecution keeps the JoinLocations, with
\* their join ids, as join_locations
PlanMutationWithJoins(alias, field) ==
  LET planned == plan_mutation(alias, field)
  IN  IF planned.tag = "Err"
        THEN planned
        ELSE Ok([alias |-> alias, kind |-> "NDCMutationExecution",
                 is_nullable |-> field.is_nullable,
                 join_locations |->
                   assign_join_ids(field.join_locations, NewRemoteJoinCounter).locations])

\* an NDC request of the field being issued, or its response being received
NdcEvent(event, request, ok) == [event |-> event, request |-> request, ok |-> ok]

\* the error::Error of a remote join that failed
RemoteJoinError(alias) ==
  [class |-> "ExecutionError", origin |-> "Executor", kind |-> "RemoteJoinFailed",
   description |-> "a remote join of the root field failed", field |-> alias]

\* the error::Error of process_response
ProcessResponseError(alias) ==
  [class |-> "ExecutionError", origin |-> "Executor", kind |-> "ProcessResponseFailed",
   description |-> "the response did not have the expected shape", field |-> alias]

\* execute_join_locations walking the Locations still to visit, in map order:
\* a Local node is entered, a Remote node whose join keys are all absent is
\* passed over with everything under it, and the walk stops at a Remote node
\* that has join keys, whose NDC query is the next to be issued. The walks
\* that can happen: each ends with the Locations left, the first being the
\* Remote node to execute, or with none left.
RECURSIVE NextRemoteJoin(_)
NextRemoteJoin(worklist) ==
  IF worklist = <<>>
    THEN {<<>>}
    ELSE LET location == Head(worklist)
         IN  IF location.join_node.tag = "Local"
               THEN NextRemoteJoin(location.rest \o Tail(worklist))
               ELSE {worklist} \cup NextRemoteJoin(Tail(worklist))

\* what a resolve function does next: it returns (`?` or its last line), it
\* issues the NDC query of the first Location left, or, with no Location
\* left, it runs process_response
Return(result) == [next |-> "return", worklist |-> <<>>, result |-> result]

Continue(worklist) ==
  [next |-> IF worklist = <<>> THEN "process_response" ELSE "execute_join",
   worklist |-> worklist, result |-> NotReturned]

\* resolve_ndc_query_execution that goes on to the remote joins whatever the
\* root NDC query returned
RootQueryRespondedIgnoringFailure(plan, ok) ==
  {Continue(w) : w \in NextRemoteJoin(plan.join_locations)}

\* resolve_ndc_query_execution when execute_ndc_query returns
RootQueryResponded(plan, ok) ==
  IF ok
    THEN {Continue(w) : w \in NextRemoteJoin(plan.join_locations)}
    ELSE {Return(Err(FieldError(plan.alias)))}

\* resolve_ndc_query_execution that leaves a failed remote join out and goes on
RemoteJoinRespondedKeepingPartialData(plan, worklist, ok) ==
  IF ok
    THEN {Continue(w) : w \in NextRemoteJoin(Head(worklist).rest \o Tail(worklist))}
    ELSE {Continue(w) : w \in NextRemoteJoin(Tail(worklist))}

\* resolve_ndc_query_execution when the NDC query of a remote join returns
\* inside execute_join_locations
RemoteJoinResponded(plan, worklist, ok) ==
  IF ok
    THEN {Continue(w) : w \in NextRemoteJoin(Head(worklist).rest \o Tail(worklist))}
    ELSE {Return(Err(RemoteJoinError(plan.alias)))}

\* resolve_ndc_mutation_execution that executes the remote joins of the field
MutationRespondedExecutingJoins(plan, ok) ==
  IF ok
    THEN {IF w = <<>> THEN Return(Ok(FieldValue(plan.alias))) ELSE Continue(w) :
            w \in NextRemoteJoin(plan.join_locations)}
    ELSE {Return(Err(FieldError(plan.alias)))}

\* resolve_ndc_mutation_execution when execute_ndc_mutation returns
MutationResponded(plan, ok) ==
  {Return(IF ok THEN Ok(FieldValue(plan.alias)) ELSE Err(FieldError(plan.alias)))}

\* the NDC request of the field's root: a query or a mutation
RootRequest(plan) == IF plan.kind = "NDCQueryExecution" THEN "query" ELSE "mutation"

NotExecuted == [result |-> NotReturned, processed |-> FALSE]

InitRootField ==
  /\ ExecIdle
  /\ JoinIdle
  /\ ResolveIdle
  /\ BooleanExpressionIdle
  /\ TypeMappingIdle
  /\ CommandIdle
  /\ LinkIdle
  /\ LaterIdle
  /\ root_field_ir \in RootFieldsWithJoins
  /\ root_field_pc = "ir"
  /\ root_field_plan = NoPlan
  /\ root_field_joins = <<>>
  /\ root_field_log = <<>>
  /\ root_field_result = NotExecuted
  /\ root_field_response = NotReturned

\* plan_query or plan_mutation on the field
PlanRootField ==
  /\ root_field_pc = "ir"
  /\ root_field_plan' = IF IsQueryRootField(root_field_ir)
                          THEN PlanQueryWithJoins(1, root_field_ir)
                          ELSE PlanMutationWithJoins(1, root_field_ir)
  /\ root_field_pc' = IF root_field_plan'.tag = "Ok" THEN "planned" ELSE "plan_error"
  /\ UNCHANGED <<root_field_ir, root_field_joins, root_field_log, root_field_result,
                 root_field_response, execVars, joinVars, resolveVars,
                 booleanExpressionVars, typeMappingVars, commandVars, linkVars,
                 laterVars>>

\* resolve_ndc_query_execution / resolve_ndc_mutation_execution up to the
\* await of execute_ndc_query / execute_ndc_mutation
IssueRootRequest ==
  /\ root_field_pc = "planned"
  /\ root_field_log' = <<NdcEvent("issue", RootRequest(root_field_plan.value), TRUE)>>
  /\ root_field_pc' = "root"
  /\ UNCHANGED <<root_field_ir, root_field_plan, root_field_joins, root_field_result,
                 root_field_response, execVars, joinVars, resolveVars,
                 booleanExpressionVars, typeMappingVars, commandVars, linkVars,
                 laterVars>>

\* the resolve function from the response just received to its next await
\* or to its return
TakeStep(step, received) ==
  /\ root_field_joins' = step.worklist
  /\ root_field_log' =
       Append(root_field_log, received)
         \o (IF step.next = "execute_join"
               THEN <<NdcEvent("issue", "remote_join", TRUE)>>
               ELSE <<>>)
  /\ \/ /\ step.next = "execute_join"
        /\ root_field_pc' = "join"
        /\ UNCHANGED root_field_result
     \/ /\ step.next = "process_response"
        /\ root_field_pc' = "done"
        /\ \E processed_ok \in BOOLEAN :
             root_field_result' =
               [result |-> IF processed_ok
                             THEN Ok(FieldValue(root_field_plan.value.alias))
                             ELSE Err(ProcessResponseError(root_field_plan.value.alias)),
                processed |-> TRUE]
     \/ /\ step.next = "return"
        /\ root_field_pc' = "done"
        /\ root_field_result' = [result |-> step.result, processed |-> FALSE]

\* execute_ndc_query / execute_ndc_mutation returns
RootResponds ==
  /\ root_field_pc = "root"
  /\ \E ok \in BOOLEAN :
       \E step \in (IF root_field_plan.value.kind = "NDCQueryExecution"
                      THEN RootQueryResponded(root_field_plan.value, ok)
                      ELSE MutationResponded(root_field_plan.value, ok)) :
         TakeStep(step, NdcEvent("complete", RootRequest(root_field_plan.value), ok))
  /\ UNCHANGED <<root_field_ir, root_field_plan, root_field_response, execVars, joinVars,
                 resolveVars, booleanExpressionVars, typeMappingVars, commandVars,
                 linkVars, laterVars>>

\* the NDC query of a remote join returns
RemoteJoinResponds ==
  /\ root_field_pc = "join"
  /\ \E ok \in BOOLEAN :
       \E step \in RemoteJoinResponded(root_field_plan.value, root_field_joins, ok) :
         TakeStep(step, NdcEvent("complete", "remote_join", ok))
  /\ UNCHANGED <<root_field_ir, root_field_plan, root_field_response, execVars, joinVars,
                 resolveVars, booleanExpressionVars, typeMappingVars, commandVars,
                 linkVars, laterVars>>

\* RootFieldResult::new on what the resolve function returned, and
\* to_graphql_response on the field
RootFieldToGraphqlResponse ==
  /\ root_field_pc = "done"
  /\ root_field_response' =
       to_graphql_response(<<RootFieldResult(root_field_plan.value.alias,
                                             root_field_plan.value.is_nullable,
                                             root_field_result.result)>>)
  /\ root_field_pc' = "responded"
  /\ UNCHANGED <<root_field_ir, root_field_plan, root_field_joins, root_field_log,
                 root_field_result, execVars, joinVars, resolveVars,
                 booleanExpressionVars, typeMappingVars, commandVars, linkVars,
                 laterVars>>

NextRootField ==
  \/ PlanRootField
  \/ IssueRootRequest
  \/ RootResponds
  \/ RemoteJoinResponds
  \/ RootFieldToGraphqlResponse

SpecRootField == InitRootField /\ [][NextRootField]_vars

(***************************************************************************)
(* stages::resolve, one stage at a time                                    *)
(***************************************************************************)
\* the results the stage can return on the document
StageResults(doc, stage) ==
  IF stage = "apollo"
    THEN ApolloResolve(GlobalIdSources(doc), EntitySources(doc))
    ELSE IF doc.rejected_by = stage
      THEN {Err(ResolveError("StageError", stage))}
      ELSE IF stage = "models" /\ ModelsStageError(doc) # "none"
        THEN {Err(ResolveError(ModelsStageError(doc), "model"))}
        ELSE {Ok("unit")}

NoStageRun == [stages |-> <<>>, result |-> NotReturned]

InitPipeline ==
  /\ ExecIdle
  /\ JoinIdle
  /\ ResolveIdle
  /\ EarlierIdle
  /\ LaterIdleExcept("pipeline")
  /\ pipeline_metadata \in MetadataDocuments
  /\ pipeline = NoStageRun

\* resolve calls its next stage: `?` returns the stage's error, and after the
\* last stage resolve returns Ok(Metadata)
RunStage ==
  /\ pipeline.result = NotReturned
  /\ LET stage == StageOrder[Len(pipeline.stages) + 1]
     IN  \E outcome \in StageResults(pipeline_metadata, stage) :
           pipeline' =
             [stages |-> Append(pipeline.stages,
                                [stage |-> stage, ok |-> outcome.tag = "Ok"]),
              result |-> IF outcome.tag = "Err"
                           THEN outcome
                           ELSE IF Len(pipeline.stages) + 1 = Len(StageOrder)
                             THEN Ok(ResolvedMetadata(pipeline_metadata))
                             ELSE NotReturned]
  /\ UNCHANGED <<pipeline_metadata, execVars, joinVars, resolveVars, earlierVars>>
  /\ LaterUnchangedExcept("pipeline")

NextPipeline == RunStage

SpecPipeline == InitPipeline /\ [][NextPipeline]_vars

(***************************************************************************)
(* collect_type_mapping_for_source (metadata/resolved/types.rs)            *)
(***************************************************************************)
\* the field types of the OpenDD object types: an inbuilt type, the object
\* types A and B, and a custom type that is not defined
CollectFieldTypes == {"Int", "A", "B", "U"}

\* object_types: A has the fields f and g, B has the field f
CollectObjectTypes ==
  {[A |-> <<[name |-> "f", field_type |-> x], [name |-> "g", field_type |-> y]>>,
    B |-> <<[name |-> "f", field_type |-> z]>>] :
     x \in {"Int", "A", "B"}, y \in {"Int", "A", "B"}, z \in CollectFieldTypes}

CollectScalarTypes == {"S"}

\* the NDC object types of the connector
CollectNdcObjectTypes == {"a", "b"}

\* the field mappings of a type: the underlying named type of each field's
\* column, or no mapping for the field
CollectFieldMappings ==
  {[A |-> [f |-> x, g |-> y], B |-> [f |-> z]] :
     x \in CollectNdcObjectTypes \cup {"missing"},
     y \in CollectNdcObjectTypes \cup {"missing"},
     z \in CollectNdcObjectTypes \cup {"missing"}}

\* the arguments of a collection: the object types, the pairs of an OpenDD
\* type and an NDC object type that data_connector_type_mappings has a
\* mapping for, and the field mappings
CollectInputs ==
  [object_types : CollectObjectTypes,
   defined : SUBSET ({"A", "B"} \X CollectNdcObjectTypes),
   field_mappings : CollectFieldMappings]

NoTypeMapping == [ndc_object_type_name |-> "none"]

\* data_connector_type_mappings.get(type_name, data_connector_name, ndc_object_type_name)
DataConnectorTypeMappingsGet(input, type_name, ndc_object_type_name) ==
  IF <<type_name, ndc_object_type_name>> \in input.defined
    THEN [ndc_object_type_name |-> ndc_object_type_name]
    ELSE NoTypeMapping

TypeMappingToCollect(type_name, ndc_object_type_name) ==
  [type_name |-> type_name, ndc_object_type_name |-> ndc_object_type_name]

TypeMappingCollectionError(kind, mapping_to_collect) ==
  [kind |-> kind, type_name |-> mapping_to_collect.type_name,
   ndc_type_name |-> mapping_to_collect.ndc_object_type_name]

\* collect_type_mapping_for_source that returns Ok for a type it has a
\* mapping for, whatever the NDC object type of that mapping
CollectEntryIgnoringNdcObjectType(input, collected_mappings, mapping_to_collect) ==
  IF DataConnectorTypeMappingsGet(input, mapping_to_collect.type_name,
                                  mapping_to_collect.ndc_object_type_name) = NoTypeMapping
    THEN "MappingNotDefined"
    ELSE IF collected_mappings[mapping_to_collect.type_name] # NoTypeMapping
      THEN "Collected"
      ELSE IF mapping_to_collect.type_name \in DOMAIN input.object_types
        THEN "Object"
        ELSE IF mapping_to_collect.type_name \in CollectScalarTypes
          THEN "Scalar"
          ELSE "InternalUnknownType"

\* collect_type_mapping_for_source that does not stop at a type it already
\* has a mapping for
CollectEntryWalkingAgain(input, collected_mappings, mapping_to_collect) ==
  IF DataConnectorTypeMappingsGet(input, mapping_to_collect.type_name,
                                  mapping_to_collect.ndc_object_type_name) = NoTypeMapping
    THEN "MappingNotDefined"
    ELSE IF /\ collected_mappings[mapping_to_collect.type_name] # NoTypeMapping
            /\ collected_mappings[mapping_to_collect.type_name].ndc_object_type_name
                 # mapping_to_collect.ndc_object_type_name
      THEN "MappingToMultipleDataConnectorObjectType"
      ELSE IF mapping_to_collect.type_name \in DOMAIN input.object_types
        THEN "Object"
        ELSE IF mapping_to_collect.type_name \in CollectScalarTypes
          THEN "Scalar"
          ELSE "InternalUnknownType"

\* collect_type_mapping_for_source from its first line to the loop over the
\* fields: what it finds
CollectEntry(input, collected_mappings, mapping_to_collect) ==
  IF DataConnectorTypeMappingsGet(input, mapping_to_collect.type_name,
                                  mapping_to_collect.ndc_object_type_name) = NoTypeMapping
    THEN "MappingNotDefined"
    ELSE IF collected_mappings[mapping_to_collect.type_name] # NoTypeMapping
      THEN IF collected_mappings[mapping_to_collect.type_name].ndc_object_type_name
                # mapping_to_collect.ndc_object_type_name
             THEN "MappingToMultipleDataConnectorObjectType"
             ELSE "Collected"
      ELSE IF mapping_to_collect.type_name \in DOMAIN input.object_types
        THEN "Object"
        ELSE IF mapping_to_collect.type_name \in CollectScalarTypes
          THEN "Scalar"
          ELSE "InternalUnknownType"

\* the body of the loop for one field: the error it returns, the mapping it
\* collects next, or nothing to do
CollectField(input, mapping_to_collect, field_definition) ==
  LET column_type == input.field_mappings[mapping_to_collect.type_name][field_definition.name]
  IN  IF column_type = "missing"
        THEN [tag |-> "Err", kind |-> "MissingFieldMapping"]
        ELSE IF field_definition.field_type = "Int"
          THEN [tag |-> "Next"]
          ELSE IF field_definition.field_type \in DOMAIN input.object_types
            THEN [tag |-> "Collect",
                  mapping_to_collect |->
                    TypeMappingToCollect(field_definition.field_type, column_type)]
            ELSE IF field_definition.field_type \in CollectScalarTypes
              THEN [tag |-> "Next"]
              ELSE [tag |-> "Err", kind |-> "InternalUnknownType"]

\* a call of collect_type_mapping_for_source: its argument and where it is,
\* 0 before the loop and k at the k-th field
Call(mapping_to_collect) == [mapping_to_collect |-> mapping_to_collect, field |-> 0]

\* the innermost call returns Ok(()): its caller goes to its next field
ReturnOk(stack) ==
  IF Len(stack) = 1
    THEN <<>>
    ELSE [k \in 1..(Len(stack) - 1) |->
            IF k = Len(stack) - 1
              THEN [stack[k] EXCEPT !.field = @ + 1]
              ELSE stack[k]]

InitCollect ==
  /\ ExecIdle
  /\ JoinIdle
  /\ ResolveIdle
  /\ EarlierIdle
  /\ LaterIdleExcept("collect")
  /\ collect_input \in CollectInputs
  /\ collect = [stack |-> <<Call(TypeMappingToCollect("A", "a"))>>,
                collected_mappings |-> [t \in {"A", "B"} |-> NoTypeMapping],
                calls |-> <<>>,
                walked |-> <<>>,
                result |-> NotReturned]

\* the innermost call runs from its first line to its loop, or returns
CollectTypeMappingForSource ==
  /\ collect.stack # <<>>
  /\ collect.stack[Len(collect.stack)].field = 0
  /\ LET top == collect.stack[Len(collect.stack)]
         mapping_to_collect == top.mapping_to_collect
         found == CollectEntry(collect_input, collect.collected_mappings, mapping_to_collect)
         failed == found \in {"MappingNotDefined", "MappingToMultipleDataConnectorObjectType",
                              "InternalUnknownType"}
         stack == IF failed
                    THEN <<>>
                    ELSE IF found = "Object"
                      THEN [collect.stack EXCEPT ![Len(collect.stack)].field = 1]
                      ELSE ReturnOk(collect.stack)
     IN  collect' =
           [stack |-> stack,
            collected_mappings |->
              IF found = "MappingNotDefined"
                THEN collect.collected_mappings
                ELSE [collect.collected_mappings EXCEPT
                        ![mapping_to_collect.type_name] =
                          [ndc_object_type_name |-> mapping_to_collect.ndc_object_type_name]],
            calls |-> Append(collect.calls,
                             [mapping_to_collect |-> mapping_to_collect,
                              collected_before |->
                                collect.collected_mappings[mapping_to_collect.type_name],
                              defined |-> found # "MappingNotDefined",
                              found |-> found]),
            walked |-> IF found = "Object"
                         THEN Append(collect.walked, mapping_to_collect.type_name)
                         ELSE collect.walked,
            result |-> IF failed
                         THEN Err(TypeMappingCollectionError(found, mapping_to_collect))
                         ELSE IF stack = <<>> THEN Ok("unit") ELSE NotReturned]
  /\ UNCHANGED <<collect_input, execVars, joinVars, resolveVars, earlierVars>>
  /\ LaterUnchangedExcept("collect")

\* the innermost call is in its loop: it handles its next field, or returns
\* Ok(()) after the last one
CollectNextField ==
  /\ collect.stack # <<>>
  /\ collect.stack[Len(collect.stack)].field > 0
  /\ LET top == collect.stack[Len(collect.stack)]
         fields == collect_input.object_types[top.mapping_to_collect.type_name]
     IN  IF top.field > Len(fields)
           THEN LET stack == ReturnOk(collect.stack)
                IN  collect' = [collect EXCEPT
                                  !.stack = stack,
                                  !.result = IF stack = <<>> THEN Ok("unit") ELSE NotReturned]
           ELSE LET step == CollectField(collect_input, top.mapping_to_collect,
                                         fields[top.field])
                IN  collect' =
                      IF step.tag = "Err"
                        THEN [collect EXCEPT
                                !.stack = <<>>,
                                !.result = Err(TypeMappingCollectionError(
                                                 step.kind, top.mapping_to_collect))]
                        ELSE IF step.tag = "Next"
                          THEN [collect EXCEPT !.stack[Len(collect.stack)].field = @ + 1]
                          ELSE [collect EXCEPT
                                  !.stack = Append(@, Call(step.mapping_to_collect))]
  /\ UNCHANGED <<collect_input, execVars, joinVars, resolveVars, earlierVars>>
  /\ LaterUnchangedExcept("collect")

NextCollect ==
  \/ CollectTypeMappingForSource
  \/ CollectNextField

SpecCollect == InitCollect /\ [][NextCollect]_vars

\* a call that can run does run
SpecCollectFair == SpecCollect /\ WF_vars(NextCollect)

(***************************************************************************)
(* collect_relationships (execute/src/plan/relationships.rs)               *)
(***************************************************************************)
\* the largest number of fields of the selection of the root ModelSelection
MaxSelectionFields == 2

\* metadata_resolve::relationship_execution_category: Local when the target
\* is on the source's connector and that connector has the relationships
\* capability
relationship_execution_category(source_data_connector, target_data_connector, capabilities) ==
  IF target_data_connector = source_data_connector /\ capabilities.relationships
    THEN "Local"
    ELSE "RemoteForEach"

\* the targets of a relationship whose source is on connector X
RelationshipTargets ==
  {[data_connector |-> "X", capabilities |-> [relationships |-> TRUE]],
   [data_connector |-> "X", capabilities |-> [relationships |-> FALSE]],
   [data_connector |-> "Y", capabilities |-> [relationships |-> TRUE]]}

\* RelationshipModelMapping: the source field, the column the source type
\* mappings give it, and the target's NDC column if it is known
RelationshipMapping(source_field, source_column, target_ndc_column) ==
  [source_field |-> source_field, source_column |-> source_column,
   target_ndc_column |-> target_ndc_column]

RelationshipMappingLists ==
  {<<>>,
   <<RelationshipMapping("f1", "c1", "t1")>>,
   <<RelationshipMapping("f1", "c1", "t1"), RelationshipMapping("f1", "c1", "t1")>>,
   <<RelationshipMapping("f1", "c1", "none")>>}

\* LocalModelRelationshipInfo
LocalModelRelationshipInfos(mapping_lists) ==
  [relationship_type : {"Array"}, source_data_connector : {"X"},
   target_source : RelationshipTargets, mappings : mapping_lists]

\* LocalCommandRelationshipInfo: a mapping's target_ndc_column stands for
\* the connector argument of the mapped command argument
LocalCommandRelationshipInfos ==
  [relationship_type : {"Object"}, source_data_connector : {"X"},
   target_source : RelationshipTargets,
   mappings : {<<>>, <<RelationshipMapping("f1", "c1", "t1")>>}]

NoRelationshipInfo ==
  [relationship_type |-> "none", source_data_connector |-> "none",
   target_source |-> [data_connector |-> "none", capabilities |-> [relationships |-> FALSE]],
   mappings |-> <<>>]

\* a ModelSelection with no relationship in it
LeafModelSelection(id) == [id |-> id, selection |-> <<>>, order_by |-> <<>>]

\* a ModelSelection that selects one local model relationship, r3
NestedModelSelection(id) ==
  [id |-> id,
   selection |->
     <<[variant |-> "ModelRelationshipLocal", name |-> "r3",
        relationship_info |->
          [relationship_type |-> "Array", source_data_connector |-> "X",
           target_source |-> [data_connector |-> "X",
                              capabilities |-> [relationships |-> TRUE]],
           mappings |-> <<RelationshipMapping("f1", "c1", "t1")>>],
        query |-> LeafModelSelection("under_r3")]>>,
   order_by |-> <<>>]

\* FieldSelection
FieldSelections ==
       {[variant |-> "Column", name |-> "none", relationship_info |-> NoRelationshipInfo,
         query |-> LeafModelSelection("none")]}
  \cup {[variant |-> "ModelRelationshipLocal", name |-> "r1", relationship_info |-> info,
         query |-> query] :
          info \in LocalModelRelationshipInfos(RelationshipMappingLists),
          query \in {LeafModelSelection("under_r1"), NestedModelSelection("under_r1")}}
  \cup {[variant |-> "ModelRelationshipRemote", name |-> "r2",
         relationship_info |-> NoRelationshipInfo, query |-> query] :
          query \in {LeafModelSelection("under_r2"), NestedModelSelection("under_r2")}}
  \cup {[variant |-> "CommandRelationshipLocal", name |-> "r4", relationship_info |-> info,
         query |-> LeafModelSelection("none")] : info \in LocalCommandRelationshipInfos}
  \cup {[variant |-> "CommandRelationshipRemote", name |-> "r6",
         relationship_info |-> NoRelationshipInfo, query |-> LeafModelSelection("none")]}

\* order_by.relationships: none, or the relationship r5
OrderByRelationships ==
  {<<>>}
    \cup {<<[name |-> "r5", relationship_info |-> info]>> :
            info \in LocalModelRelationshipInfos({<<>>, <<RelationshipMapping("f1", "c1", "t1")>>})}

\* the root ModelSelection
ModelSelections ==
  [id : {"root"}, selection : SeqsUpTo(FieldSelections, MaxSelectionFields),
   order_by : OrderByRelationships]

\* BTreeMap::insert
MapInsert(map, key, value) ==
  [k \in DOMAIN map \cup {key} |-> IF k = key THEN value ELSE map[k]]

EmptyMap == [k \in {} |-> "none"]

RelationshipsAreNotSupported == "RemoteRelationshipsAreNotSupported"

\* the loop of process_model_relationship_definition, from the k-th mapping
RECURSIVE ModelColumnMapping(_, _, _)
ModelColumnMapping(relationship_info, k, column_mapping) ==
  IF k > Len(relationship_info.mappings)
    THEN Ok(column_mapping)
    ELSE LET mapping == relationship_info.mappings[k]
         IN  IF relationship_execution_category(
                  relationship_info.source_data_connector,
                  relationship_info.target_source.data_connector,
                  relationship_info.target_source.capabilities) = "Local"
               THEN IF mapping.target_ndc_column = "none"
                      THEN Err("InternalGeneric")
                      ELSE IF mapping.source_column = "none"
                        THEN Err("InternalGeneric")
                        ELSE IF mapping.source_column \in DOMAIN column_mapping
                          THEN Err("MappingExistsInRelationship")
                          ELSE ModelColumnMapping(relationship_info, k + 1,
                                 MapInsert(column_mapping, mapping.source_column,
                                           mapping.target_ndc_column))
               ELSE Err(RelationshipsAreNotSupported)

\* process_model_relationship_definition
process_model_relationship_definition(relationship_info) ==
  LET column_mapping == ModelColumnMapping(relationship_info, 1, EmptyMap)
  IN  IF column_mapping.tag = "Err"
        THEN column_mapping
        ELSE Ok([column_mapping |-> column_mapping.value,
                 relationship_type |-> relationship_info.relationship_type,
                 arguments |-> EmptyMap])

\* the loop of process_command_relationship_definition, from the k-th mapping
RECURSIVE CommandArgumentMapping(_, _, _)
CommandArgumentMapping(relationship_info, k, arguments) ==
  IF k > Len(relationship_info.mappings)
    THEN Ok(arguments)
    ELSE LET mapping == relationship_info.mappings[k]
         IN  IF relationship_execution_category(
                  relationship_info.source_data_connector,
                  relationship_info.target_source.data_connector,
                  relationship_info.target_source.capabilities) = "Local"
               THEN IF mapping.source_column = "none"
                      THEN Err("InternalGeneric")
                      ELSE IF mapping.target_ndc_column = "none"
                        THEN Err("MissingArgumentMappingInCommandRelationship")
                        ELSE IF mapping.target_ndc_column \in DOMAIN arguments
                          THEN Err("MappingExistsInRelationship")
                          ELSE CommandArgumentMapping(relationship_info, k + 1,
                                 MapInsert(arguments, mapping.target_ndc_column,
                                           mapping.source_column))
               ELSE Err(RelationshipsAreNotSupported)

\* process_command_relationship_definition
process_command_relationship_definition(relationship_info) ==
  LET arguments == CommandArgumentMapping(relationship_info, 1, EmptyMap)
  IN  IF arguments.tag = "Err"
        THEN arguments
        ELSE Ok([column_mapping |-> EmptyMap, relationship_type |-> "Object",
                 arguments |-> arguments.value])

\* what collect_relationships leaves: its Result, the relationships map and
\* the ModelSelections it was called on
Collected(result, relationships, traversed) ==
  [result |-> result, relationships |-> relationships, traversed |-> traversed]

\* the loop over order_by.relationships, from the k-th one
RECURSIVE CollectFromOrderBy(_, _, _, _)
CollectFromOrderBy(order_by, k, relationships, traversed) ==
  IF k > Len(order_by)
    THEN Collected(Ok("unit"), relationships, traversed)
    ELSE LET result == process_model_relationship_definition(order_by[k].relationship_info)
         IN  IF result.tag = "Err"
               THEN Collected(result, relationships, traversed)
               ELSE CollectFromOrderBy(order_by, k + 1,
                      MapInsert(relationships, order_by[k].name, result.value), traversed)

\* collect_relationships, from the k-th field of the selection on
RECURSIVE CollectFromSelection(_, _, _, _)
CollectFromSelection(model_selection, k, relationships, traversed) ==
  IF k > Len(model_selection.selection)
    THEN CollectFromOrderBy(model_selection.order_by, 1, relationships, traversed)
    ELSE LET field == model_selection.selection[k]
         IN  IF field.variant = "ModelRelationshipLocal"
               THEN LET result == process_model_relationship_definition(field.relationship_info)
                    IN  IF result.tag = "Err"
                          THEN Collected(result, relationships, traversed)
                          ELSE LET nested ==
                                     CollectFromSelection(
                                       field.query, 1,
                                       MapInsert(relationships, field.name, result.value),
                                       Append(traversed, field.query.id))
                               IN  IF nested.result.tag = "Err"
                                     THEN nested
                                     ELSE CollectFromSelection(model_selection, k + 1,
                                            nested.relationships, nested.traversed)
               ELSE IF field.variant = "CommandRelationshipLocal"
                 THEN LET result == process_command_relationship_definition(
                                      field.relationship_info)
                      IN  IF result.tag = "Err"
                            THEN Collected(result, relationships, traversed)
                            ELSE CollectFromSelection(model_selection, k + 1,
                                   MapInsert(relationships, field.name, result.value),
                                   traversed)
                 ELSE CollectFromSelection(model_selection, k + 1, relationships, traversed)

collect_relationships(model_selection) ==
  CollectFromSelection(model_selection, 1, EmptyMap, <<model_selection.id>>)

NothingCollected == Collected(NotReturned, EmptyMap, <<>>)

InitRelationships ==
  /\ ExecIdle
  /\ JoinIdle
  /\ ResolveIdle
  /\ EarlierIdle
  /\ LaterIdleExcept("relationships")
  /\ relationships_ir \in ModelSelections
  /\ relationships_result = NothingCollected

CollectRelationships ==
  /\ relationships_result = NothingCollected
  /\ relationships_result' = collect_relationships(relationships_ir)
  /\ UNCHANGED <<relationships_ir, execVars, joinVars, resolveVars, earlierVars>>
  /\ LaterUnchangedExcept("relationships")

NextRelationships == CollectRelationships

SpecRelationships == InitRelationships /\ [][NextRelationships]_vars

(***************************************************************************)
(* select_many_generate_ir (execute/src/ir/query_root/select_many.rs)      *)
(***************************************************************************)
\* the largest number of arguments of a field call
MaxArguments == 2

\* the arguments of a select_many field, by their annotation
SelectManyArgumentNames == {"limit", "offset", "args", "order_by", "where"}

\* the argument presets of the role's model permission: none, or a preset
\* of the model argument p taken from a session variable
ArgumentPresets == {{}, {[argument |-> "p", value |-> "session"]}}

\* the model arguments a user gives in args
UserModelArguments == {{}, {[argument |-> "a", value |-> "user"]}}

NoNamespaceAnnotation == [tag |-> "None", argument_presets |-> {}]

\* a field call argument: its annotation, whether its value has the expected
\* shape, and its info.namespaced; the schema puts the role's presets on args
FieldCallArgument(name, valid, argument_presets) ==
  [name |-> name, valid |-> valid,
   namespaced |-> IF name = "args"
                    THEN [tag |-> "Model", argument_presets |-> argument_presets]
                    ELSE NoNamespaceAnnotation]

\* field_call.arguments is an IndexMap: no argument is given twice
FieldCalls ==
  {[arguments |-> [k \in 1..Len(names) |->
                     FieldCallArgument(names[k], valid[k], argument_presets)],
    model_arguments |-> user_arguments,
    argument_presets |-> argument_presets] :
     names \in {s \in SeqsUpTo(SelectManyArgumentNames, MaxArguments) :
                  \A i, j \in 1..Len(s) : s[i] = s[j] => i = j},
     valid \in [1..MaxArguments -> BOOLEAN],
     user_arguments \in UserModelArguments,
     argument_presets \in ArgumentPresets}

\* permissions::get_argument_presets
get_argument_presets(namespaced) ==
  IF namespaced.tag = "None"
    THEN [tag |-> "None", argument_presets |-> {}]
    ELSE [tag |-> "Some", argument_presets |-> namespaced.argument_presets]

\* arguments::process_model_arguments_presets: a preset replaces what the
\* user gave for its argument
process_model_arguments_presets(argument_presets, model_arguments) ==
  {a \in model_arguments : \A p \in argument_presets : p.argument # a.argument}
    \cup argument_presets

NoSelection ==
  [limit |-> FALSE, offset |-> FALSE, filter_clause |-> FALSE, order_by |-> FALSE,
   model_arguments |-> {}]

\* the loop over field_call.arguments, from the k-th one
RECURSIVE SelectManyArguments(_, _, _)
SelectManyArguments(field_call, k, selection) ==
  IF k > Len(field_call.arguments)
    THEN Ok(selection)
    ELSE LET argument == field_call.arguments[k]
         IN  IF ~argument.valid
               THEN Err([kind |-> "UnexpectedValue", argument |-> argument.name])
               ELSE SelectManyArguments(field_call, k + 1,
                      IF argument.name = "limit"
                        THEN [selection EXCEPT !.limit = TRUE]
                        ELSE IF argument.name = "offset"
                          THEN [selection EXCEPT !.offset = TRUE]
                          ELSE IF argument.name = "args"
                            THEN [selection EXCEPT
                                    !.model_arguments = @ \cup field_call.model_arguments]
                            ELSE IF argument.name = "order_by"
                              THEN [selection EXCEPT !.order_by = TRUE]
                              ELSE [selection EXCEPT !.filter_clause = TRUE])

\* select_many_generate_ir: the ModelSelection it builds
select_many_generate_ir(field_call) ==
  LET parsed == SelectManyArguments(field_call, 1, NoSelection)
  IN  IF parsed.tag = "Err"
        THEN parsed
        ELSE IF field_call.arguments = <<>>
          THEN parsed
          ELSE LET argument_presets == get_argument_presets(field_call.arguments[1].namespaced)
               IN  IF argument_presets.tag = "None"
                     THEN parsed
                     ELSE Ok([parsed.value EXCEPT
                                !.model_arguments =
                                  process_model_arguments_presets(
                                    argument_presets.argument_presets, @)])

InitSelectMany ==
  /\ ExecIdle
  /\ JoinIdle
  /\ ResolveIdle
  /\ EarlierIdle
  /\ LaterIdleExcept("select_many")
  /\ select_many_field_call \in FieldCalls
  /\ select_many_result = NotReturned

SelectManyGenerateIr ==
  /\ select_many_result = NotReturned
  /\ select_many_result' = select_many_generate_ir(select_many_field_call)
  /\ UNCHANGED <<select_many_field_call, execVars, joinVars, resolveVars, earlierVars>>
  /\ LaterUnchangedExcept("select_many")

NextSelectMany == SelectManyGenerateIr

SpecSelectMany == InitSelectMany /\ [][NextSelectMany]_vars

(***************************************************************************)
(* build_boolean_expression_input_schema (schema/src/boolean_expression.rs)*)
(***************************************************************************)
\* the largest number of relationships of the object type
MaxRelationships == 2

Roles == {"admin", "user"}

\* target_model.model.source: none, or the connector and its capabilities
TargetSources ==
  {[tag |-> "None", data_connector |-> "none", capabilities |-> [relationships |-> FALSE]]}
    \cup {[tag |-> "Some", data_connector |-> t.data_connector,
           capabilities |-> t.capabilities] : t \in RelationshipTargets}

\* target_model.model.filter_expression_type: none, one without a graphql
\* configuration, one with a type name
FilterExpressionTypes == {"None", "NoGraphql", "Graphql"}

\* the relationships of the object type: to a command, to a model that
\* gds.metadata.models does not have, or to a model
SchemaRelationshipTargets ==
       {[target |-> "Command", model_known |-> FALSE, source |-> s,
         filter_expression_type |-> "None"] :
          s \in {t \in TargetSources : t.tag = "None"}}
  \cup {[target |-> "Model", model_known |-> FALSE, source |-> s,
         filter_expression_type |-> "None"] :
          s \in {t \in TargetSources : t.tag = "None"}}
  \cup [target : {"Model"}, model_known : {TRUE}, source : TargetSources,
        filter_expression_type : FilterExpressionTypes]

RelationshipNames == <<"r1", "r2", "r3">>

\* the object boolean expression type, the object type it is on and the
\* models: whether the type has a graphql configuration, its connector if it
\* has one, its scalar fields, the roles allowed to read each field of the
\* object type, and the object type's relationships, named by their place
SchemaMetadata ==
  [graphql : BOOLEAN,
   data_connector : {"none", "X"},
   scalar_fields : {{}, {"f1"}, {"f1", "f2"}},
   allowed_roles : {[f1 |-> roles, f2 |-> {"admin"}] : roles \in SUBSET Roles},
   relationships : SeqsUpTo(SchemaRelationshipTargets, MaxRelationships)]

\* permissions::get_allowed_roles_for_field
get_allowed_roles_for_field(gds, field_name) == gds.allowed_roles[field_name]

\* builder.allow_all_namespaced and builder.conditional_namespaced
AllowAllNamespaced(field) == [field |-> field, namespaced |-> "all", roles |-> Roles]

ConditionalNamespaced(field, roles) ==
  [field |-> field, namespaced |-> "conditional", roles |-> roles]

\* permissions::get_model_relationship_namespace_annotations: the roles that
\* may select from the target model, here every role
get_model_relationship_namespace_annotations(gds, relationship) == Roles

\* the relationship loop's test without the execution category
RelationshipIsFilterFieldIgnoringCategory(gds, relationship) ==
  /\ relationship.target = "Model"
  /\ gds.data_connector # "none"
  /\ relationship.source.tag = "Some"
  /\ relationship.filter_expression_type = "Graphql"

\* the relationship loop's nested tests: whether the relationship becomes an
\* input field
RelationshipIsFilterField(gds, relationship) ==
  /\ relationship.target = "Model"
  /\ gds.data_connector # "none"
  /\ relationship.source.tag = "Some"
  /\ relationship_execution_category(gds.data_connector, relationship.source.data_connector,
                                     relationship.source.capabilities) = "Local"
  /\ relationship.source.data_connector = gds.data_connector
  /\ relationship.filter_expression_type = "Graphql"

\* the relationship loop, from the k-th relationship
RECURSIVE RelationshipFields(_, _, _)
RelationshipFields(gds, k, input_fields) ==
  IF k > Len(gds.relationships)
    THEN Ok(input_fields)
    ELSE LET relationship == gds.relationships[k]
         IN  IF relationship.target # "Model"
               THEN RelationshipFields(gds, k + 1, input_fields)
               ELSE IF ~relationship.model_known
                 THEN Err("InternalModelNotFound")
                 ELSE IF RelationshipIsFilterField(gds, relationship)
                   THEN RelationshipFields(gds, k + 1,
                          MapInsert(input_fields, RelationshipNames[k],
                                    ConditionalNamespaced(
                                      "RelationshipField",
                                      get_model_relationship_namespace_annotations(
                                        gds, relationship))))
                   ELSE RelationshipFields(gds, k + 1, input_fields)

\* the _not, _and and _or fields
LogicalOperatorFields ==
  [name \in {"_not", "_and", "_or"} |->
     AllowAllNamespaced(IF name = "_not" THEN "NotOp"
                        ELSE IF name = "_and" THEN "AndOp" ELSE "OrOp")]

\* the column fields added to the logical operator fields
ColumnFields(gds) ==
  [name \in DOMAIN LogicalOperatorFields \cup gds.scalar_fields |->
     IF name \in gds.scalar_fields
       THEN ConditionalNamespaced("Field", get_allowed_roles_for_field(gds, name))
       ELSE LogicalOperatorFields[name]]

\* build_boolean_expression_input_schema: the input fields of the type
build_boolean_expression_input_schema(gds) ==
  IF ~gds.graphql
    THEN Err("InternalBooleanExpressionNotFound")
    ELSE RelationshipFields(gds, 1, ColumnFields(gds))

InitSchema ==
  /\ ExecIdle
  /\ JoinIdle
  /\ ResolveIdle
  /\ EarlierIdle
  /\ LaterIdleExcept("schema")
  /\ schema_gds \in SchemaMetadata
  /\ schema_result = NotReturned

BuildBooleanExpressionInputSchema ==
  /\ schema_result = NotReturned
  /\ schema_result' = build_boolean_expression_input_schema(schema_gds)
  /\ UNCHANGED <<schema_gds, execVars, joinVars, resolveVars, earlierVars>>
  /\ LaterUnchangedExcept("schema")

NextSchema == BuildBooleanExpressionInputSchema

SpecSchema == InitSchema /\ [][NextSchema]_vars

(***************************************************************************)
(* data_connectors::resolve (metadata-resolve stages/data_connectors)      *)
(***************************************************************************)
\* the largest number of data connector definitions in the metadata
MaxDataConnectorDefinitions == 3

\* a data connector definition of a subgraph; context_ok says whether
\* DataConnectorContext::new accepts it
DataConnectorDefinitions ==
  [subgraph : {"s1", "s2"}, name : {"a", "b"}, context_ok : BOOLEAN]

\* Qualified::new keyed by the name alone
QualifiedIgnoringSubgraph(subgraph, name) == <<"", name>>

\* Qualified::new
Qualified(subgraph, name) == <<subgraph, name>>

\* DataConnectorContext::new(..)?: the context of the definition or an error
DataConnectorContextNew(data_connector) ==
  IF data_connector.context_ok
    THEN Ok([name |-> data_connector.name, subgraph |-> data_connector.subgraph])
    ELSE Err("DataConnectorContextError")

\* the loop of data_connectors::resolve, from the k-th definition
RECURSIVE ResolveDataConnectors(_, _, _)
ResolveDataConnectors(definitions, k, data_connectors) ==
  IF k > Len(definitions)
    THEN Ok(data_connectors)
    ELSE LET data_connector == definitions[k]
             qualified_data_connector_name ==
               Qualified(data_connector.subgraph, data_connector.name)
             context == DataConnectorContextNew(data_connector)
         IN  IF context.tag = "Err"
               THEN context
               ELSE IF qualified_data_connector_name \in DOMAIN data_connectors
                 THEN Err("DuplicateDataConnectorDefinition")
                 ELSE ResolveDataConnectors(
                        definitions, k + 1,
                        MapInsert(data_connectors, qualified_data_connector_name,
                                  context.value))

data_connectors_resolve(definitions) == ResolveDataConnectors(definitions, 1, EmptyMap)

InitDataConnectors ==
  /\ ExecIdle
  /\ JoinIdle
  /\ ResolveIdle
  /\ EarlierIdle
  /\ LaterIdleExcept("connectors")
  /\ data_connector_definitions \in
       SeqsUpTo(DataConnectorDefinitions, MaxDataConnectorDefinitions)
  /\ data_connectors_result = NotReturned

DataConnectorsResolve ==
  /\ data_connectors_result = NotReturned
  /\ data_connectors_result' = data_connectors_resolve(data_connector_definitions)
  /\ UNCHANGED <<data_connector_definitions, execVars, joinVars, resolveVars, earlierVars>>
  /\ LaterUnchangedExcept("connectors")

NextDataConnectors == DataConnectorsResolve

SpecDataConnectors == InitDataConnectors /\ [][NextDataConnectors]_vars

(***************************************************************************)
(* resolve_object_type (engine/src/metadata/resolved/types.rs)             *)
(***************************************************************************)
\* the largest number of fields and of global id fields of an object type
MaxObjectFields == 2

ObjectFieldNames == {"id", "a"}

\* names a global id field list or an Apollo key can mention: b is no field
ReferredFieldNames == {"id", "a", "b"}

\* apolloFederation.keys: up to two keys of at most one field
ApolloFederationKeys == SeqsUpTo(SeqsUpTo({"a", "b"}, 1), 2)

\* ObjectTypeV1.graphql
ObjectTypeGraphqlConfigs ==
  {NoneValue} \cup
  {Some(g) : g \in [type_name : {NoneValue, Some("T")},
                    input_type_name : {NoneValue, Some("T"), Some("U")},
                    apollo_federation :
                      {NoneValue} \cup {Some([keys |-> keys]) : keys \in ApolloFederationKeys}]}

\* an ObjectTypeV1 and the graphql type names stored before it
ObjectTypeV1Definitions ==
  [fields : SeqsUpTo(ObjectFieldNames, MaxObjectFields),
   global_id_fields :
     {NoneValue} \cup {Some(fields) : fields \in SeqsUpTo(ReferredFieldNames, MaxObjectFields)},
   graphql : ObjectTypeGraphqlConfigs,
   existing_graphql_types : {{}, {"T"}}]

\* what resolve_object_type leaves behind: its result and the three
\* collections it has &mut access to
ObjectTypeResolution(result, existing, global_id_enabled, apollo_enabled) ==
  [result |-> result,
   existing_graphql_types |-> existing,
   global_id_enabled_types |-> global_id_enabled,
   apollo_federation_entity_enabled_types |-> apollo_enabled]

SeqRange(s) == {s[i] : i \in DOMAIN s}

\* the first loop: the field that is inserted twice, if any
HasDuplicateField(fields) ==
  \E i, j \in DOMAIN fields : i < j /\ fields[i] = fields[j]

\* global_id_enabled_types.insert, left out
RegisterGlobalIdNever(global_id_fields) == FALSE

\* whether global_id_enabled_types.insert is reached
RegisterGlobalId(global_id_fields) ==
  global_id_fields.tag = "Some" /\ global_id_fields.value # <<>>

\* the keys loop: the error of the first key that has an unknown field or no
\* field, or Ok
RECURSIVE ResolveApolloKeys(_, _, _)
ResolveApolloKeys(keys, k, resolved_fields) ==
  IF k > Len(keys)
    THEN Ok("keys")
    ELSE IF \E i \in DOMAIN keys[k] : keys[k][i] \notin resolved_fields
      THEN Err("UnknownFieldInApolloFederationKey")
      ELSE IF keys[k] = <<>>
        THEN Err("EmptyFieldsInApolloFederationConfigForObject")
        ELSE ResolveApolloKeys(keys, k + 1, resolved_fields)

\* store_new_graphql_type on an Option
StoreOptionalGraphqlType(existing_graphql_types, new_graphql_type) ==
  IF new_graphql_type.tag = "None"
    THEN [result |-> Ok("unit"), existing_graphql_types |-> existing_graphql_types]
    ELSE store_new_graphql_type(existing_graphql_types, new_graphql_type.value)

\* the end of resolve_object_type: the two store_new_graphql_type calls
StoreObjectTypeNames(definition, global_id_enabled, apollo_enabled) ==
  LET type_name == IF definition.graphql.tag = "None" THEN NoneValue
                   ELSE definition.graphql.value.type_name
      input_type_name == IF definition.graphql.tag = "None" THEN NoneValue
                         ELSE definition.graphql.value.input_type_name
      first == StoreOptionalGraphqlType(definition.existing_graphql_types, type_name)
      second == StoreOptionalGraphqlType(first.existing_graphql_types, input_type_name)
  IN  IF first.result.tag = "Err"
        THEN ObjectTypeResolution(Err("ConflictingGraphQlType"),
                                  first.existing_graphql_types,
                                  global_id_enabled, apollo_enabled)
        ELSE IF second.result.tag = "Err"
          THEN ObjectTypeResolution(Err("ConflictingGraphQlType"),
                                    second.existing_graphql_types,
                                    global_id_enabled, apollo_enabled)
          ELSE ObjectTypeResolution(Ok([fields |-> definition.fields,
                                        global_id_fields |->
                                          IF definition.global_id_fields.tag = "Some"
                                            THEN definition.global_id_fields.value
                                            ELSE <<>>,
                                        apollo_federation_config |->
                                          IF definition.graphql.tag = "Some"
                                            THEN definition.graphql.value.apollo_federation
                                            ELSE NoneValue]),
                                    second.existing_graphql_types,
                                    global_id_enabled, apollo_enabled)

\* the match on object_type_definition.graphql
ResolveObjectGraphql(definition, global_id_enabled) ==
  LET resolved_fields == SeqRange(definition.fields)
      existing == definition.existing_graphql_types
  IN  IF definition.graphql.tag = "None"
          \/ definition.graphql.value.apollo_federation.tag = "None"
        THEN StoreObjectTypeNames(definition, global_id_enabled, {})
        ELSE LET keys == definition.graphql.value.apollo_federation.value.keys
                 resolved_keys == ResolveApolloKeys(keys, 1, resolved_fields)
             IN  IF resolved_keys.tag = "Err"
                   THEN ObjectTypeResolution(resolved_keys, existing, global_id_enabled, {})
                   ELSE IF keys = <<>>
                     THEN ObjectTypeResolution(
                            Err("EmptyKeysInApolloFederationConfigForObject"),
                            existing, global_id_enabled, {"type"})
                     ELSE StoreObjectTypeNames(definition, global_id_enabled, {"type"})

\* resolve_object_type, called with maps that do not have the type yet
resolve_object_type(definition) ==
  LET resolved_fields == SeqRange(definition.fields)
      existing == definition.existing_graphql_types
      global_id_fields == definition.global_id_fields
      global_id_enabled == IF RegisterGlobalId(global_id_fields) THEN {"type"} ELSE {}
  IN  IF HasDuplicateField(definition.fields)
        THEN ObjectTypeResolution(Err("DuplicateFieldDefinition"), existing, {}, {})
        ELSE IF /\ global_id_fields.tag = "Some"
                /\ global_id_fields.value # <<>>
                /\ "id" \in resolved_fields
          THEN ObjectTypeResolution(Err("IdFieldConflictingGlobalId"), existing, {}, {})
          ELSE IF /\ global_id_fields.tag = "Some"
                  /\ SeqRange(global_id_fields.value) \ resolved_fields # {}
            THEN ObjectTypeResolution(Err("UnknownFieldInGlobalId"), existing,
                                      global_id_enabled, {})
            ELSE ResolveObjectGraphql(definition, global_id_enabled)

InitObjectType ==
  /\ ExecIdle
  /\ JoinIdle
  /\ ResolveIdle
  /\ EarlierIdle
  /\ LaterIdleExcept("objecttype")
  /\ object_type_definition \in ObjectTypeV1Definitions
  /\ object_type_resolution = NotReturned

ResolveObjectType ==
  /\ object_type_resolution = NotReturned
  /\ object_type_resolution' = resolve_object_type(object_type_definition)
  /\ UNCHANGED <<object_type_definition, execVars, joinVars, resolveVars, earlierVars>>
  /\ LaterUnchangedExcept("objecttype")

NextObjectType == ResolveObjectType

SpecObjectType == InitObjectType /\ [][NextObjectType]_vars

(***************************************************************************)
(* resolve_aggregate_expression (metadata-resolve stages/models)           *)
(***************************************************************************)
\* the largest number of aggregatable fields of an aggregate expression
MaxAggregatableFields == 2

\* the number of innermost calls of
\* resolve_aggregate_expression_data_connector_mapping that are kept on
\* record: one more than the number of different calls, so that callers are
\* dropped from the record only below a call that is entered a second time
MaxMappingCalls == 5

\* ndc_models::Type
NamedType(name) == [tag |-> "Named", name |-> name]

NullableType(underlying_type) == [tag |-> "Nullable", underlying_type |-> underlying_type]

ArrayType(element_type) == [tag |-> "Array", element_type |-> element_type]

\* object_types: T1 is mapped to the connector's D1 and T2 to D2, each with
\* one field f of the given column type
AggregateObjectTypes(t1_column_type) ==
  [T1 |-> [type_mappings |-> [D1 |-> [f |-> t1_column_type]]],
   T2 |-> [type_mappings |-> [D2 |-> [f |-> NamedType("D1")]]]]

\* the aggregatable fields of an aggregate expression over an object type
AggregatableFields(field_names, aggregate_expression_names) ==
  SeqsUpTo([field_name : field_names, aggregate_expression : aggregate_expression_names],
           MaxAggregatableFields)

\* aggregate_expressions: E1 over T1, E2 over T2, EInt over the
\* inbuilt Int with or without a function mapping for the connector's int;
\* no expression is called Unknown
AggregateExpressions ==
  {[E1 |-> [aggregated_type |-> "T1", aggregatable_fields |-> fields1,
            aggregation_functions_mapped_for |-> {}, count_distinct |-> count_distinct],
    E2 |-> [aggregated_type |-> "T2", aggregatable_fields |-> fields2,
            aggregation_functions_mapped_for |-> {}, count_distinct |-> FALSE],
    EInt |-> [aggregated_type |-> "Int", aggregatable_fields |-> <<>>,
              aggregation_functions_mapped_for |-> mapped, count_distinct |-> FALSE]] :
     fields1 \in AggregatableFields({"f"}, {"E1", "E2", "EInt", "Unknown"})
                   \cup {<<[field_name |-> "g", aggregate_expression |-> "EInt"]>>},
     fields2 \in AggregatableFields({"f"}, {"E1", "EInt"}),
     mapped \in {{}, {"D1", "D2", "int"}},
     count_distinct \in BOOLEAN}

\* model_source: none, or connector X with collection type D1
AggregateModelSources ==
  {NoneValue} \cup
  {Some([collection_type |-> "D1",
         capabilities |-> [supports_nested_object_aggregations |-> nested]]) :
     nested \in BOOLEAN}

\* the arguments of resolve_aggregate_expression for a model of type T1
AggregateInputs ==
  [aggregate_expression_name : {"E1", "Unknown"},
   model_object_type_name : {"T1"},
   model_source : AggregateModelSources,
   aggregate_expressions : AggregateExpressions,
   object_types : {AggregateObjectTypes(column_type) :
                     column_type \in {NamedType("D1"), NullableType(NamedType("D2")),
                                      NamedType("int"), ArrayType(NamedType("D1"))}}]

\* a call of resolve_aggregate_expression_data_connector_mapping: its
\* arguments and the aggregatable field its loop is at
MappingCall(aggregate_expression, object_type_name, data_connector_object_type) ==
  [aggregate_expression |-> aggregate_expression,
   object_type_name |-> object_type_name,
   data_connector_object_type |-> data_connector_object_type,
   field |-> 1]

\* the start of resolve_aggregate_expression_data_connector_mapping: the
\* object type and its mapping to the connector's object type
ObjectTypeFieldMapping(input, call) ==
  IF call.object_type_name \notin DOMAIN input.object_types
    THEN Err("UnknownObjectType")
    ELSE LET type_mappings == input.object_types[call.object_type_name].type_mappings
         IN  IF call.data_connector_object_type \notin DOMAIN type_mappings
               THEN Err("TypeMappingRequired")
               ELSE Ok(type_mappings[call.data_connector_object_type])

\* the match on field_mapping.column_type
DataConnectorFieldType(column_type) ==
  IF column_type.tag = "Named"
    THEN Ok(column_type.name)
    ELSE IF column_type.tag = "Nullable" /\ column_type.underlying_type.tag = "Named"
      THEN Ok(column_type.underlying_type.name)
      ELSE Err("ModelAggregateExpressionUnexpectedDataConnectorType")

\* one turn of the loop over the aggregatable fields: an error, the next
\* field, or a nested call
ResolveAggregatableField(input, call, object_type_field_mapping, aggregatable_field) ==
  IF aggregatable_field.field_name \notin DOMAIN object_type_field_mapping
    THEN Err("AggregateOperandObjectFieldNotFound")
    ELSE LET data_connector_field_type ==
               DataConnectorFieldType(object_type_field_mapping[aggregatable_field.field_name])
         IN  IF data_connector_field_type.tag = "Err"
               THEN data_connector_field_type
               ELSE IF aggregatable_field.aggregate_expression
                         \notin DOMAIN input.aggregate_expressions
                 THEN Err("UnknownModelAggregateExpression")
                 ELSE LET field_aggregate_expression ==
                            input.aggregate_expressions[aggregatable_field.aggregate_expression]
                      IN  IF field_aggregate_expression.aggregated_type
                                \in DOMAIN input.object_types
                            THEN IF ~input.model_source.value.capabilities
                                       .supports_nested_object_aggregations
                                   THEN Err("NestedObjectAggregatesNotSupportedByDataConnector")
                                   ELSE [tag |-> "Call",
                                         call |-> MappingCall(
                                           aggregatable_field.aggregate_expression,
                                           field_aggregate_expression.aggregated_type,
                                           data_connector_field_type.value)]
                            ELSE IF data_connector_field_type.value
                                      \in field_aggregate_expression
                                            .aggregation_functions_mapped_for
                              THEN [tag |-> "Next"]
                              ELSE Err("ModelAggregateExpressionDataConnectorMappingMissing")

\* resolve_aggregate_expression up to its call of
\* resolve_aggregate_expression_data_connector_mapping
ResolveAggregateExpressionChecks(input) ==
  IF input.model_source.tag = "None"
    THEN Err("CannotUseAggregateExpressionsWithoutSource")
    ELSE IF input.aggregate_expression_name \notin DOMAIN input.aggregate_expressions
      THEN Err("UnknownModelAggregateExpression")
      ELSE IF input.aggregate_expressions[input.aggregate_expression_name].aggregated_type
                # input.model_object_type_name
        THEN Err("ModelAggregateExpressionOperandTypeMismatch")
        ELSE [tag |-> "Call",
              call |-> MappingCall(input.aggregate_expression_name,
                                   input.model_object_type_name,
                                   input.model_source.value.collection_type)]

\* resolve_aggregate_expression after the mapping call returned Ok(())
ResolveAggregateExpressionEnd(input) ==
  IF input.aggregate_expressions[input.aggregate_expression_name].count_distinct
    THEN Err("ModelAggregateExpressionCountDistinctNotAllowed")
    ELSE Ok(input.aggregate_expression_name)

\* entering a call: its first lines fail, or it is the innermost call; of a
\* full record the outermost call is dropped
EnterMappingCall(input, resolution, call) ==
  LET object_type_field_mapping == ObjectTypeFieldMapping(input, call)
      full == Len(resolution.stack) = MaxMappingCalls
  IN  IF object_type_field_mapping.tag = "Err"
        THEN [resolution EXCEPT !.stack = <<>>, !.result = object_type_field_mapping]
        ELSE [stack |-> Append(IF full THEN Tail(resolution.stack) ELSE resolution.stack,
                               call),
              result |-> NotReturned,
              dropped |-> resolution.dropped \/ full,
              entered |-> (resolution.entered + 1) % (MaxMappingCalls + 1)]

NotStarted == [tag |-> "NotStarted"]

\* stack: the calls in progress, innermost last; dropped: whether callers
\* were dropped from the record; entered: the calls entered so far, counted
\* modulo MaxMappingCalls + 1
InitAggregate ==
  /\ ExecIdle
  /\ JoinIdle
  /\ ResolveIdle
  /\ EarlierIdle
  /\ LaterIdleExcept("aggregate")
  /\ aggregate_input \in AggregateInputs
  /\ aggregate_resolution =
       [stack |-> <<>>, result |-> NotStarted, dropped |-> FALSE, entered |-> 0]

\* resolve_aggregate_expression is called
ResolveAggregateExpression ==
  /\ aggregate_resolution.result = NotStarted
  /\ LET checks == ResolveAggregateExpressionChecks(aggregate_input)
     IN  aggregate_resolution' =
           IF checks.tag = "Err"
             THEN [aggregate_resolution EXCEPT !.result = checks]
             ELSE EnterMappingCall(aggregate_input, aggregate_resolution, checks.call)
  /\ UNCHANGED <<aggregate_input, execVars, joinVars, resolveVars, earlierVars>>
  /\ LaterUnchangedExcept("aggregate")

\* the innermost call handles its next aggregatable field
ResolveNextAggregatableField ==
  /\ aggregate_resolution.stack # <<>>
  /\ LET stack == aggregate_resolution.stack
         top == stack[Len(stack)]
         fields == aggregate_input.aggregate_expressions[top.aggregate_expression]
                     .aggregatable_fields
     IN  /\ top.field <= Len(fields)
         /\ LET step == ResolveAggregatableField(
                          aggregate_input, top,
                          ObjectTypeFieldMapping(aggregate_input, top).value,
                          fields[top.field])
            IN  aggregate_resolution' =
                  IF step.tag = "Err"
                    THEN [aggregate_resolution EXCEPT !.stack = <<>>, !.result = step]
                    ELSE IF step.tag = "Next"
                      THEN [aggregate_resolution EXCEPT !.stack[Len(stack)].field = @ + 1]
                      ELSE EnterMappingCall(aggregate_input, aggregate_resolution, step.call)
  /\ UNCHANGED <<aggregate_input, execVars, joinVars, resolveVars, earlierVars>>
  /\ LaterUnchangedExcept("aggregate")

\* the innermost call is past its last field and returns Ok(()): its caller
\* goes on with its next field, resolve_aggregate_expression with its end
ReturnFromMappingCall ==
  /\ aggregate_resolution.stack # <<>>
  /\ LET stack == aggregate_resolution.stack
         top == stack[Len(stack)]
         fields == aggregate_input.aggregate_expressions[top.aggregate_expression]
                     .aggregatable_fields
         callers == SubSeq(stack, 1, Len(stack) - 1)
     IN  /\ top.field > Len(fields)
         /\ callers = <<>> => ~aggregate_resolution.dropped
         /\ aggregate_resolution' =
              IF callers = <<>>
                THEN [aggregate_resolution EXCEPT
                        !.stack = <<>>,
                        !.result = ResolveAggregateExpressionEnd(aggregate_input)]
                ELSE [aggregate_resolution EXCEPT
                        !.stack = [callers EXCEPT ![Len(callers)].field = @ + 1]]
  /\ UNCHANGED <<aggregate_input, execVars, joinVars, resolveVars, earlierVars>>
  /\ LaterUnchangedExcept("aggregate")

NextAggregate ==
  \/ ResolveAggregateExpression
  \/ ResolveNextAggregatableField
  \/ ReturnFromMappingCall

SpecAggregate == InitAggregate /\ [][NextAggregate]_vars

\* a call that can go on does go on
SpecAggregateFair == SpecAggregate /\ WF_vars(NextAggregate)

(***************************************************************************)
(* Properties                                                              *)
(***************************************************************************)
Planned == request_plan.tag = "Ok"

IsMutationRun == Planned /\ request_plan.value.tag = "MutationPlan"

IsQueryRun == Planned /\ request_plan.value.tag = "QueryPlan"

Failed(field_result) == field_result.result.tag = "Err"

\* the places of the log where a call is issued / completed
Issued(alias) == \E p \in 1..Len(ndc_log) : ndc_log[p] = NdcIssue(alias)

Completed(alias) ==
  \E p \in 1..Len(ndc_log) : ndc_log[p].event = "complete" /\ ndc_log[p].alias = alias

Outstanding == {a \in 1..Len(ir) : Issued(a) /\ ~Completed(a)}

Aliases(map) == [k \in 1..Len(map) |-> map[k].alias]

DocumentOrder == [k \in 1..Len(ir) |-> k]

\* C1: in a mutation with root fields f1..fn in document order, whatever
\* their data connectors, the NDC call of fi is issued and completes before
\* the NDC call of fj is issued, for all i < j: no event of a later field
\* precedes an event of an earlier field in the log of NDC calls.
C1_MutationCallsInDocumentOrder ==
  IsMutationRun =>
    \A p \in 1..Len(ndc_log), q \in 1..Len(ndc_log) :
      p < q => ndc_log[p].alias <= ndc_log[q].alias

\* the procedure root fields whose NDC call failed and that are non-nullable
FailedNonNullably ==
  {a \in 1..Len(ir) : /\ ~ir[a].is_nullable
                      /\ \E p \in 1..Len(ndc_log) : ndc_log[p] = NdcComplete(a, FALSE)}

\* C2: once a non-nullable mutation root field has failed, no NDC call is
\* issued for a later root field, and the response is data: null with the
\* single error of the failed field, at path [its alias].
C2_NoCallAfterNonNullableFailure ==
  IsMutationRun =>
    /\ \A p \in 1..Len(ndc_log), q \in 1..Len(ndc_log) :
         (p < q /\ ndc_log[p].alias \in FailedNonNullably /\ ndc_log[p].event = "complete")
         => ndc_log[q].event # "issue"
    /\ (pc = "responded" /\ FailedNonNullably # {})
       => /\ response.data_is_null
          /\ Len(response.errors) = 1
          /\ response.errors[1].path =
               <<CHOOSE a \in FailedNonNullably : \A b \in FailedNonNullably : a <= b>>

FailingFields == {k \in 1..Len(root_fields) : Failed(root_fields[k])}

\* C3: when every failing root field is nullable, data has one entry per
\* root field in root-field order, null for a failing field and the computed
\* value for the others, and errors holds exactly one error per failing
\* field, with path [its alias].
C3_NullableFailuresAreContained ==
  (pc = "responded" /\ \A k \in FailingFields : root_fields[k].is_nullable)
  => /\ ~response.data_is_null
     /\ Len(response.data) = Len(root_fields)
     /\ \A k \in 1..Len(root_fields) :
          /\ response.data[k].alias = root_fields[k].alias
          /\ response.data[k].value = IF Failed(root_fields[k])
                                        THEN JsonNull
                                        ELSE root_fields[k].result.value
     /\ Len(response.errors) = Cardinality(FailingFields)
     /\ \A k \in FailingFields :
          Cardinality({e \in 1..Len(response.errors) :
                         response.errors[e].path = <<root_fields[k].alias>>}) = 1
     /\ \A e \in 1..Len(response.errors) :
          \E k \in FailingFields :
            response.errors[e] = GraphqlError(root_fields[k].result.error, root_fields[k].alias)

\* two nullable fields failed and a sibling succeeded
C3_Witness ==
  /\ pc = "responded"
  /\ \A k \in FailingFields : root_fields[k].is_nullable
  /\ Cardinality(FailingFields) = 2
  /\ \E k \in 1..Len(root_fields) : ~Failed(root_fields[k])
  /\ Len(response.errors) = 2

NonNullableFailures == {k \in FailingFields : ~root_fields[k].is_nullable}

\* C4: when a failing root field is non-nullable, the response has data =
\* null and exactly one error, that of the first failing non-nullable field
\* in root-field order, with path [its alias]; the errors of the nullable
\* fields that failed are not in it.
C4_NonNullableFailureNullifiesResponse ==
  (pc = "responded" /\ NonNullableFailures # {})
  => LET first == CHOOSE k \in NonNullableFailures : \A j \in NonNullableFailures : k <= j
     IN  /\ response.data_is_null
         /\ response.data = <<>>
         /\ response.errors = <<GraphqlError(root_fields[first].result.error,
                                             root_fields[first].alias)>>

\* a nullable field failed before and another after the first failing
\* non-nullable field
C4_Witness ==
  /\ pc = "responded"
  /\ \E k \in NonNullableFailures :
       /\ \E j \in FailingFields : j < k /\ root_fields[j].is_nullable
       /\ \E j \in FailingFields : j > k /\ root_fields[j].is_nullable
  /\ response.data_is_null

\* C5: the root_fields of the result of execute_query_plan, and the keys of
\* the response's data, are in document order, in whatever order the field
\* tasks completed.
C5_QueryResultInDocumentOrder ==
  (IsQueryRun /\ pc \in {"executed", "responded"})
  => /\ Aliases(root_fields) = DocumentOrder
     /\ (pc = "responded" /\ ~response.data_is_null) => Aliases(response.data) = DocumentOrder

\* the NDC calls of three fields completed in the reverse of document order
C5_Witness ==
  /\ IsQueryRun
  /\ pc = "responded"
  /\ Len(ir) = 3
  /\ \E p \in 1..Len(ndc_log), q \in 1..Len(ndc_log), r \in 1..Len(ndc_log) :
       /\ p < q /\ q < r
       /\ ndc_log[p].event = "complete" /\ ndc_log[p].alias = 3
       /\ ndc_log[q].event = "complete" /\ ndc_log[q].alias = 2
       /\ ndc_log[r].event = "complete" /\ ndc_log[r].alias = 1
  /\ ~response.data_is_null

NdcFields == {k \in 1..Len(ir) : ir[k].kind = "NDCQueryExecution"}

\* C6: while execute_query_plan waits, the NDC request of every root field
\* that has not completed is outstanding (no field waits for another field's
\* request), and execute_query_plan returns only when every root field has
\* its RootFieldResult.
C6_QueryFieldsRunConcurrently ==
  IsQueryRun =>
    /\ pc = "query" => \A k \in NdcFields : Issued(k)
    /\ pc = "query" => Outstanding # {}
    /\ pc \in {"executed", "responded"} =>
         /\ \A k \in NdcFields : Completed(k)
         /\ Len(root_fields) = Len(ir)
         /\ \A k \in 1..Len(tasks) : tasks[k].state = "done"

\* the requests of all the root fields are outstanding at the same time
C6_Witness ==
  /\ IsQueryRun
  /\ pc = "query"
  /\ Len(ir) >= 2
  /\ Outstanding = 1..Len(ir)

Mixed(fields) ==
  /\ \E k \in 1..Len(fields) : IsQueryRootField(fields[k])
  /\ \E k \in 1..Len(fields) : IsMutationRootField(fields[k])

\* C7: generate_request_plan returns an error and no plan for every list of
\* root fields that holds a query root field and a mutation root field.
C7_MixedOperationIsRejected ==
  (pc # "request" /\ Mixed(ir)) => (request_plan.tag = "Err" /\ pc = "plan_error")

\* a query field after a mutation __typename, and a procedure after a query
C7_Witness ==
  /\ pc = "plan_error"
  /\ Len(ir) = 3
  /\ ir[1].kind = "TypeName"
  /\ ir[2].kind = "ProcedureBasedCommand"
  /\ ir[2].plan_ok
  /\ request_plan.tag = "Err"

\* the first root field whose kind of operation differs from the first one's
FirstSwitch(fields) ==
  CHOOSE k \in 1..Len(fields) :
    /\ IsQueryRootField(fields[k]) # IsQueryRootField(fields[1])
    /\ \A j \in 1..(k - 1) : IsQueryRootField(fields[j]) = IsQueryRootField(fields[1])

UnplannableBefore(fields, k) == {j \in 1..(k - 1) : ~fields[j].plan_ok}

\* C8 as claimed: the failure on a mixed operation is a user-visible plan
\* error of kind MixedMutationAndQuery, not an internal engine error.
C8_MixedIsUserVisiblePlanError ==
  (pc # "request" /\ Mixed(ir))
  => /\ request_plan.tag = "Err"
     /\ request_plan.error.kind = "MixedMutationAndQuery"
     /\ request_plan.error.class # "InternalError"

\* C8 as amended: on a mixed operation generate_request_plan fails with the
\* internal engine error InternalGeneric "Parsed engine request contains
\* mixed mutation/query operations", unless a root field before the first
\* change of kind cannot be planned, and then with that field's error.
C8_MixedIsInternalEngineError ==
  (pc # "request" /\ Mixed(ir))
  => /\ request_plan.tag = "Err"
     /\ LET k == FirstSwitch(ir)
            bad == UnplannableBefore(ir, k)
        IN  IF bad = {}
              THEN /\ request_plan.error = MixedOperationsError
                   /\ request_plan.error.class = "InternalError"
                   /\ request_plan.error.kind = "InternalGeneric"
              ELSE request_plan.error =
                     FieldPlanError(CHOOSE j \in bad : \A i \in bad : j <= i)

\* a mixed operation every field of which can be planned, and one whose
\* field at the change of kind cannot
C8_Witness ==
  /\ pc = "plan_error"
  /\ Mixed(ir)
  /\ Len(ir) = 2
  /\ ir[1].plan_ok
  /\ ~ir[2].plan_ok
  /\ request_plan.error = MixedOperationsError

\* the Remote nodes of a tree, each with its path, its RemoteJoin and the
\* JoinId at the same place of the tree of ids
RECURSIVE RemoteNodesAt(_, _, _)
RemoteNodesAt(locations, ids, path) ==
  UNION {
    (IF locations[k].join_node.tag = "Remote"
       THEN {[path |-> Append(path, k),
              remote_join |-> locations[k].join_node.remote_join,
              tag |-> ids[k].join_node.tag,
              join_id |-> ids[k].join_node.join_id]}
       ELSE {})
    \cup RemoteNodesAt(locations[k].rest, ids[k].rest, Append(path, k))
    : k \in 1..Len(locations)}

RemoteNodes == RemoteNodesAt(join_locations, join_ids, <<>>)

IsProperPrefix(p, q) == Len(p) < Len(q) /\ \A k \in 1..Len(p) : p[k] = q[k]

\* C9: within one JoinLocations tree, two Remote nodes get the same JoinId
\* if and only if their RemoteJoin values are equal, wherever they sit.
C9_SameJoinIdIffEqualRemoteJoin ==
  join_pc = "assigned" =>
    \A a \in RemoteNodes, b \in RemoteNodes :
      /\ a.tag = "Remote"
      /\ a.join_id # NoJoinId
      /\ (a.join_id = b.join_id) <=> (a.remote_join = b.remote_join)

\* a remote join met again under its own rest, with another one in between
C9_Witness ==
  /\ join_pc = "assigned"
  /\ \E a \in RemoteNodes, b \in RemoteNodes, c \in RemoteNodes :
       /\ IsProperPrefix(a.path, c.path)
       /\ IsProperPrefix(c.path, b.path)
       /\ a.remote_join = b.remote_join
       /\ a.join_id = b.join_id
       /\ c.remote_join # a.remote_join
       /\ c.join_id # a.join_id

\* C10: resolving the same metadata document twice gives the same outcome:
\* equal Resolved Metadata when both resolutions succeed, and the same error
\* when the document fails resolution.
C10_ResolutionIsDeterministic ==
  \A i \in 1..Len(resolved), j \in 1..Len(resolved) : resolved[i] = resolved[j]

\* the place of a stage in the order resolve runs the stages
StagePlace(stage) == CHOOSE k \in 1..Len(StageOrder) : StageOrder[k] = stage

\* a stage that resolve runs before apollo::resolve rejects the document
RejectedBeforeApollo ==
  \/ /\ metadata.rejected_by # "none"
     /\ StagePlace(metadata.rejected_by) < StagePlace("apollo")
  \/ ModelsStageError(metadata) # "none"

\* the registered types that lack a global id source / an entity source
NoGlobalIdSource ==
  {t \in DOMAIN GlobalIdSources(metadata) : GlobalIdSources(metadata)[t] = {}}

NoEntitySource ==
  {t \in DOMAIN EntitySources(metadata) : ~EntitySources(metadata)[t]}

\* C11: resolution succeeds only if every type of global_id_enabled_types
\* has a global id source model and every type of
\* apollo_federation_entity_enabled_types has an entity source model; when
\* apollo::resolve is reached it returns GlobalIdSourceNotDefined for a type
\* without a global id source, otherwise
\* ApolloFederationEntitySourceNotDefined for a type without an entity
\* source, and Ok(()) exactly when no type lacks its source.
C11_ApolloSourcesRequired ==
  \A i \in 1..Len(resolved) :
    LET r == resolved[i]
    IN  /\ r.tag = "Ok" => (NoGlobalIdSource = {} /\ NoEntitySource = {})
        /\ (~RejectedBeforeApollo /\ NoGlobalIdSource # {})
           => /\ r.tag = "Err"
              /\ r.error.kind = "GlobalIdSourceNotDefined"
              /\ r.error.subject \in NoGlobalIdSource
        /\ (~RejectedBeforeApollo /\ NoGlobalIdSource = {} /\ NoEntitySource # {})
           => /\ r.tag = "Err"
              /\ r.error.kind = "ApolloFederationEntitySourceNotDefined"
              /\ r.error.subject \in NoEntitySource
        /\ (NoGlobalIdSource = {} /\ NoEntitySource = {})
           => (r.tag = "Err" => r.error.kind \notin {"GlobalIdSourceNotDefined",
                                                     "ApolloFederationEntitySourceNotDefined"})

\* every global-id type has its source, and a type with keys lacks an entity
\* source while another one has it
C11_Witness ==
  /\ Len(resolved) = MaxResolutions
  /\ DOMAIN GlobalIdSources(metadata) # {}
  /\ NoGlobalIdSource = {}
  /\ Cardinality(DOMAIN EntitySources(metadata)) = 2
  /\ Cardinality(NoEntitySource) = 1
  /\ resolved[1].tag = "Err"
  /\ resolved[1].error.kind = "ApolloFederationEntitySourceNotDefined"

\* the fields of the object type that an entry of comparable_fields names
\* with operators enableAll: true
ComparableFieldNames(definition) ==
  {definition.comparable_fields[k].field_name :
     k \in {j \in 1..Len(definition.comparable_fields) :
              definition.comparable_fields[j].operators = "EnableAll(true)"}}

\* C12: a legacy object boolean expression type resolves successfully only
\* if every field of its object type is named by some entry of
\* comparable_fields with operators enableAll: true; a definition that
\* leaves a field of the object type out is rejected.
C12_AllFieldsAreComparable ==
  boolean_expression_result.result.tag = "Ok"
  => ObjectTypeFields(boolean_expression.object_type)
       \subseteq ComparableFieldNames(boolean_expression)

\* the names of field_mapping that are no field of the object type
UnknownSourceFieldNames ==
  (DOMAIN type_mapping.field_mapping)
    \ {type_mapping.fields[k] : k \in 1..Len(type_mapping.fields)}

TypeFieldNames == {type_mapping.fields[k] : k \in 1..Len(type_mapping.fields)}

\* the column a field is to be mapped to: the one given, else its own name
ExpectedColumn(field_name) ==
  IF field_name \in DOMAIN type_mapping.field_mapping
    THEN type_mapping.field_mapping[field_name]
    ELSE field_name

\* on success field_mappings has one entry per field of the object type and
\* no other, each with the expected column, which the NDC object type has
FieldMappingsAreComplete ==
  type_mapping_result.tag = "Ok" =>
    /\ DOMAIN type_mapping_result.value.field_mappings = TypeFieldNames
    /\ \A f \in TypeFieldNames :
         /\ type_mapping_result.value.field_mappings[f].column = ExpectedColumn(f)
         /\ ExpectedColumn(f) \in NdcObjectTypeFields(type_mapping.data_connector_object_type)

\* C13 as claimed: on success field_mappings is complete, and a mapping for
\* a name that is no field of the object type makes the call fail with
\* UnknownSourceFields.
C13_UnknownSourceFieldsAlways ==
  /\ FieldMappingsAreComplete
  /\ (type_mapping_result # NotReturned /\ UnknownSourceFieldNames # {})
     => /\ type_mapping_result.tag = "Err"
        /\ type_mapping_result.error.kind = "UnknownSourceFields"

\* the checks that come before the one of the unconsumed mappings all pass
EarlierChecksPass ==
  /\ type_mapping.data_connector_name \in KnownDataConnectors
  /\ type_mapping.data_connector_object_type
       \in ConnectorObjectTypes(type_mapping.data_connector_name)
  /\ \A f \in TypeFieldNames :
       ExpectedColumn(f) \in NdcObjectTypeFields(type_mapping.data_connector_object_type)

\* C13 as amended: on success field_mappings is complete; a mapping for a
\* name that is no field of the object type always makes the call fail, with
\* UnknownSourceFields naming exactly those names when the data connector
\* and its NDC object type are known and every field's column exists, and
\* otherwise with the error of the first of these checks that fails
\* (UnknownDataConnector, UnknownNdcType, UnknownTargetColumn).
C13_FieldMappingsAreCompleteOrRejected ==
  /\ FieldMappingsAreComplete
  /\ (type_mapping_result # NotReturned /\ UnknownSourceFieldNames # {})
     => /\ type_mapping_result.tag = "Err"
        /\ IF EarlierChecksPass
             THEN type_mapping_result.error =
                    TypeMappingValidationError("UnknownSourceFields", UnknownSourceFieldNames)
             ELSE type_mapping_result.error.kind
                    \in {"UnknownDataConnector", "UnknownNdcType", "UnknownTargetColumn"}
  /\ (type_mapping_result.tag = "Err"
      /\ type_mapping_result.error.kind = "UnknownSourceFields")
     => UnknownSourceFieldNames # {}

\* one field mapped explicitly, one implicitly, and a mapping for a name
\* that is no field: rejected with UnknownSourceFields
C13_Witness ==
  /\ type_mapping.fields = <<"b", "a">>
  /\ DOMAIN type_mapping.field_mapping = {"b", "z"}
  /\ type_mapping.field_mapping["b"] = "col_b"
  /\ type_mapping_result.tag = "Err"
  /\ type_mapping_result.error = TypeMappingValidationError("UnknownSourceFields", {"z"})

\* the arguments of the command that are named like an argument preset of
\* the data connector
PresetArguments ==
  {command_definition.arguments[k] : k \in 1..Len(command_definition.arguments)}
    \cap command_definition.argument_presets

\* C14: validate_ndc_command fails with
\* CannotUseDataConnectorLinkArgumentPresetInCommand whenever the name of an
\* argument of the command is the name of one of the data connector's
\* argument presets, and never fails with that error otherwise.
C14_PresetArgumentIsRejected ==
  command_result.validated # NotReturned =>
    /\ PresetArguments # {}
       => /\ command_result.validated.tag = "Err"
          /\ command_result.validated.error.kind =
               "CannotUseDataConnectorLinkArgumentPresetInCommand"
          /\ command_result.validated.error.subject \in PresetArguments
          /\ command_result.resolved = command_result.validated
    /\ PresetArguments = {}
       => (command_result.validated.tag = "Err"
           => command_result.validated.error.kind #
                "CannotUseDataConnectorLinkArgumentPresetInCommand")

\* a command with two arguments, the second of which is named like a preset
C14_Witness ==
  /\ command_definition.arguments = <<"a", "b">>
  /\ command_definition.argument_presets = {"b", "q"}
  /\ DOMAIN command_definition.argument_mapping = {"b"}
  /\ command_result.validated.tag = "Err"
  /\ command_result.validated.error =
       CommandError("CannotUseDataConnectorLinkArgumentPresetInCommand", "b")

\* C15: DataConnectorLink::upgrade is the identity on the definition:
\* DataConnectorLink::V1(d).upgrade() equals d, so the versioned document
\* {version: v1, definition: D} upgrades to the value D deserializes to.
C15_UpgradeIsIdentityOnDefinition ==
  link_result.link.tag = "Ok" =>
    /\ link_result.upgraded = Ok(link_result.link.value.v1)
    /\ link_result.upgraded = link_result.definition

\* a definition with headers, argument presets and response headers
C15_Witness ==
  /\ link_result.link.tag = "Ok"
  /\ link_result.upgraded.tag = "Ok"
  /\ link_result.upgraded.value.headers = <<"Authorization">>
  /\ link_result.upgraded.value.argument_presets = <<"headers">>
  /\ link_result.upgraded.value.response_headers.tag = "Some"

\* the group of MutationPlan.nodes a procedure root field is in, and its
\* place in that group
GroupOf(alias) ==
  CHOOSE g \in 1..Len(request_plan.value.nodes) :
    \E k \in 1..Len(request_plan.value.nodes[g].fields) :
      request_plan.value.nodes[g].fields[k].alias = alias

PlaceInGroup(alias) ==
  CHOOSE k \in 1..Len(request_plan.value.nodes[GroupOf(alias)].fields) :
    request_plan.value.nodes[GroupOf(alias)].fields[k].alias = alias

\* C16: execute_mutation_plan runs the mutation root fields one at a time:
\* at most one NDC mutation call is in flight, a call is issued only when
\* every call issued before it has completed, the groups are taken in the
\* order of MutationPlan.nodes, and every field of a group is executed, in
\* the group's order, before a field of the next group starts.
C16_MutationFieldsRunOneAtATime ==
  IsMutationRun =>
    /\ Cardinality(Outstanding) <= 1
    /\ in_flight # NoAlias => Outstanding = {in_flight}
    /\ \A p \in 1..Len(ndc_log), q \in 1..Len(ndc_log) :
         (p < q /\ ndc_log[p].event = "issue" /\ ndc_log[q].event = "issue")
         => /\ \E c \in (p + 1)..(q - 1) :
                 ndc_log[c].event = "complete" /\ ndc_log[c].alias = ndc_log[p].alias
            /\ GroupOf(ndc_log[p].alias) <= GroupOf(ndc_log[q].alias)
            /\ GroupOf(ndc_log[p].alias) = GroupOf(ndc_log[q].alias)
                 => PlaceInGroup(ndc_log[p].alias) < PlaceInGroup(ndc_log[q].alias)
    /\ pc \in {"executed", "responded"}
         => \A g \in 1..Len(request_plan.value.nodes) :
              \A k \in 1..Len(request_plan.value.nodes[g].fields) :
                Completed(request_plan.value.nodes[g].fields[k].alias)

\* two groups, the first with two fields that the second group's field
\* separates in the document, all executed
C16_Witness ==
  /\ IsMutationRun
  /\ pc = "executed"
  /\ Len(request_plan.value.nodes) = 2
  /\ Len(request_plan.value.nodes[1].fields) = 2
  /\ request_plan.value.nodes[1].fields[2].alias = 3
  /\ request_plan.value.nodes[2].fields[1].alias = 2
  /\ Len(ndc_log) = 6

\* the places (group, place in the group) of MutationPlan.nodes that hold
\* the root field of an alias
PlacesInNodes(alias) ==
  {<<g, k>> \in (1..Len(request_plan.value.nodes)) \X (1..MaxFields) :
     /\ k <= Len(request_plan.value.nodes[g].fields)
     /\ request_plan.value.nodes[g].fields[k].alias = alias}

ProcedureAliases == {a \in 1..Len(ir) : ir[a].kind = "ProcedureBasedCommand"}

TypeNameAliases == {a \in 1..Len(ir) : ir[a].kind = "MutationTypeName"}

IsAscending(aliases) ==
  \A i \in 1..Len(aliases), j \in 1..Len(aliases) : i < j => aliases[i] < aliases[j]

\* C17: in the MutationPlan of generate_request_plan every procedure root
\* field is in exactly one group, that of its data connector; the groups are
\* in the order of the first document occurrence of their connector; the
\* fields of a group are in document order; the __typename root fields are
\* in type_names only, in document order.
C17_MutationPlanGroupsByConnector ==
  IsMutationRun =>
    LET nodes == request_plan.value.nodes
    IN  /\ \A a \in ProcedureAliases :
             /\ Cardinality(PlacesInNodes(a)) = 1
             /\ \A place \in PlacesInNodes(a) :
                  nodes[place[1]].data_connector = ir[a].data_connector
        /\ \A a \in (1..Len(ir)) \ ProcedureAliases : PlacesInNodes(a) = {}
        /\ \A g \in 1..Len(nodes) :
             /\ nodes[g].fields # <<>>
             /\ IsAscending(Aliases(nodes[g].fields))
             /\ \A h \in 1..Len(nodes) :
                  g < h => /\ nodes[g].data_connector # nodes[h].data_connector
                           /\ nodes[g].fields[1].alias < nodes[h].fields[1].alias
        /\ IsAscending(request_plan.value.type_names)
        /\ {request_plan.value.type_names[k] : k \in 1..Len(request_plan.value.type_names)}
             = TypeNameAliases
        /\ Len(request_plan.value.type_names) = Cardinality(TypeNameAliases)

\* a procedure on Y, a __typename and a procedure on X, in this order
C17_Witness ==
  /\ IsMutationRun
  /\ pc = "planned"
  /\ Len(ir) = 3
  /\ ir[1].data_connector = "Y"
  /\ ir[2].kind = "MutationTypeName"
  /\ ir[3].data_connector = "X"
  /\ Len(request_plan.value.nodes) = 2
  /\ request_plan.value.type_names = <<2>>

RootFieldIsQuery ==
  /\ root_field_plan.tag = "Ok"
  /\ root_field_plan.value.kind = "NDCQueryExecution"

RootFieldIsMutation ==
  /\ root_field_plan.tag = "Ok"
  /\ root_field_plan.value.kind = "NDCMutationExecution"

\* the places of the log where an NDC request of that kind is issued
RequestsIssued(request) ==
  {p \in 1..Len(root_field_log) : root_field_log[p] = NdcEvent("issue", request, TRUE)}

\* the places of the log where the response of such a request is received
ResponsesReceived(request, ok) ==
  {p \in 1..Len(root_field_log) : root_field_log[p] = NdcEvent("complete", request, ok)}

\* C18: for a query root field executed by resolve_ndc_query_execution, every
\* remote-join NDC request is issued after the root NDC query was issued and
\* its response received, and when the root NDC query fails no remote-join
\* request is issued for the field.
C18_RootQueryBeforeRemoteJoins ==
  RootFieldIsQuery =>
    /\ \A j \in RequestsIssued("remote_join") :
         \E i \in RequestsIssued("query") :
           \E c \in ResponsesReceived("query", TRUE) : i < c /\ c < j
    /\ ResponsesReceived("query", FALSE) # {} => RequestsIssued("remote_join") = {}

\* a query root field whose root NDC query succeeded and two of whose remote
\* joins were executed
C18_Witness ==
  /\ RootFieldIsQuery
  /\ root_field_pc = "done"
  /\ Cardinality(RequestsIssued("remote_join")) >= 2
  /\ root_field_result.result.tag = "Ok"

RemoteJoinFailed == ResponsesReceived("remote_join", FALSE) # {}

\* C19: when a remote join of a query root field fails after the root NDC
\* query succeeded, resolve_ndc_query_execution returns that error without
\* running process_response and without issuing anything more, and the
\* response has the error under the field's nullability rule: a null for a
\* nullable field with the error beside it, no data at all for a
\* non-nullable one.
C19_RemoteJoinFailureFailsTheField ==
  (RootFieldIsQuery /\ RemoteJoinFailed) =>
    /\ ResponsesReceived("query", TRUE) # {}
    /\ root_field_pc \in {"done", "responded"}
    /\ root_field_result = [result |-> Err(RemoteJoinError(1)), processed |-> FALSE]
    /\ ResponsesReceived("remote_join", FALSE) = {Len(root_field_log)}
    /\ root_field_pc = "responded" =>
         root_field_response =
           IF root_field_plan.value.is_nullable
             THEN ResponsePartial(<<[alias |-> 1, value |-> JsonNull]>>,
                                  <<GraphqlError(RemoteJoinError(1), 1)>>)
             ELSE ResponseError(GraphqlError(RemoteJoinError(1), 1))

\* a nullable query root field whose second remote join failed after the
\* first one succeeded, and whose response was made
C19_Witness ==
  /\ RootFieldIsQuery
  /\ root_field_plan.value.is_nullable
  /\ RemoteJoinFailed
  /\ ResponsesReceived("remote_join", TRUE) # {}
  /\ root_field_pc = "responded"

\* C20: a planned mutation root field issues exactly one NDC mutation
\* request and no NDC query, of a remote join or other, whatever Remote nodes
\* its join_locations has; and plan_mutation plans the field whenever
\* ndc_mutation_ir gives the NDC request, Remote nodes or not.
C20_MutationIgnoresRemoteJoins ==
  /\ (/\ root_field_pc # "ir"
      /\ IsMutationRootField(root_field_ir)
      /\ root_field_ir.plan_ok) => RootFieldIsMutation
  /\ RootFieldIsMutation =>
       /\ RequestsIssued("remote_join") = {}
       /\ RequestsIssued("query") = {}
       /\ Cardinality(RequestsIssued("mutation")) =
            (IF root_field_pc = "planned" THEN 0 ELSE 1)

\* a mutation root field with a Remote node in its join_locations that was
\* planned and executed, and whose response was made
C20_Witness ==
  /\ RootFieldIsMutation
  /\ HasRemoteNode(root_field_plan.value.join_locations)
  /\ root_field_pc = "responded"
  /\ root_field_result.result.tag = "Ok"

\* the order of the stages, as the pipeline is described
PipelineOrder ==
  <<"graphql_config", "data_connectors", "object_types", "scalar_types",
    "data_connector_scalar_types", "type_permissions", "boolean_expressions",
    "models", "commands", "apollo", "relationships", "command_permissions",
    "model_permissions", "roles">>

\* C21: the stages resolve has run are the first ones of the fixed order, in
\* that order; every stage but the last one run returned Ok; resolve has
\* returned an error exactly when the last stage run returned one, and it is
\* that error; it has returned a Metadata exactly when all fourteen stages
\* ran and returned Ok.
C21_StagesRunInOrderUntilAnError ==
  LET stages == pipeline.stages
      n == Len(stages)
  IN  /\ n <= Len(PipelineOrder)
      /\ \A k \in 1..n : stages[k].stage = PipelineOrder[k]
      /\ \A k \in 1..(n - 1) : stages[k].ok
      /\ pipeline.result.tag = "Err" <=> (n > 0 /\ ~stages[n].ok)
      /\ pipeline.result.tag = "Err" =>
           pipeline.result \in StageResults(pipeline_metadata, stages[n].stage)
      /\ pipeline.result.tag = "Ok" <=> (n = Len(PipelineOrder) /\ stages[n].ok)
      /\ pipeline.result.tag = "Ok" =>
           pipeline.result.value = ResolvedMetadata(pipeline_metadata)

\* a document that relationships::resolve rejects: eleven stages ran, the
\* last one failed, and resolve returned its error
C21_Witness ==
  /\ pipeline_metadata.rejected_by = "relationships"
  /\ Len(pipeline.stages) = 11
  /\ pipeline.result = Err(ResolveError("StageError", "relationships"))

\* the calls that met a type collected_mappings already had a mapping for,
\* with another NDC object type or with the same one
MetWithAnotherNdcObjectType ==
  {k \in 1..Len(collect.calls) :
     /\ collect.calls[k].collected_before # NoTypeMapping
     /\ collect.calls[k].collected_before.ndc_object_type_name
          # collect.calls[k].mapping_to_collect.ndc_object_type_name}

MetAgain ==
  {k \in 1..Len(collect.calls) :
     /\ collect.calls[k].collected_before # NoTypeMapping
     /\ collect.calls[k].collected_before.ndc_object_type_name
          = collect.calls[k].mapping_to_collect.ndc_object_type_name}

\* the collection returned the error of its k-th call
ReturnedErrorOfCall(k, kind) ==
  /\ collect.calls[k].found = kind
  /\ k = Len(collect.calls)
  /\ collect.result =
       Err(TypeMappingCollectionError(kind, collect.calls[k].mapping_to_collect))

\* a type met again with the same NDC object type is not walked again
NotWalkedAgain ==
  /\ \A k \in MetAgain : collect.calls[k].found = "Collected"
  /\ \A i, j \in 1..Len(collect.walked) : collect.walked[i] = collect.walked[j] => i = j

\* C22 as stated: a call for a type collected with another NDC object type
\* fails with MappingToMultipleDataConnectorObjectType, and a call for a type
\* collected with the same NDC object type returns Ok without a walk.
C22_AnotherNdcObjectTypeAlwaysMultiple ==
  /\ \A k \in MetWithAnotherNdcObjectType :
       ReturnedErrorOfCall(k, "MappingToMultipleDataConnectorObjectType")
  /\ NotWalkedAgain

\* C22: a call for a type collected with another NDC object type fails: with
\* MappingToMultipleDataConnectorObjectType when the connector has a mapping
\* of the type to that other NDC object type, with MappingNotDefined when it
\* has none; a call for a type collected with the same NDC object type
\* returns Ok without a walk.
C22_AnotherNdcObjectTypeFails ==
  /\ \A k \in MetWithAnotherNdcObjectType :
       IF <<collect.calls[k].mapping_to_collect.type_name,
            collect.calls[k].mapping_to_collect.ndc_object_type_name>>
            \in collect_input.defined
         THEN ReturnedErrorOfCall(k, "MappingToMultipleDataConnectorObjectType")
         ELSE ReturnedErrorOfCall(k, "MappingNotDefined")
  /\ NotWalkedAgain

\* A's field f is an A on a column of a and is met again, A's field g is an A
\* on a column of b, which the connector has a mapping for: the collection
\* fails with MappingToMultipleDataConnectorObjectType
C22_Witness ==
  /\ MetAgain # {}
  /\ \E k \in MetWithAnotherNdcObjectType :
       ReturnedErrorOfCall(k, "MappingToMultipleDataConnectorObjectType")

\* the object types reached from A through object-typed fields
CollectReachable ==
  LET object_types == collect_input.object_types
      Known(S) == {t \in S : t \in DOMAIN object_types}
      FieldsOf(S) ==
        S \cup UNION {{object_types[t][k].field_type : k \in 1..Len(object_types[t])} : t \in S}
  IN  Known(FieldsOf(Known(FieldsOf({"A"}))))

\* C28: the collection returns; the fields of no type are walked twice; and
\* when it returns Ok, collected_mappings has a mapping for every object type
\* reached from the starting type through object-typed fields.
C28_CollectionTerminates ==
  /\ [](/\ \A i, j \in 1..Len(collect.walked) :
             collect.walked[i] = collect.walked[j] => i = j
        /\ collect.result.tag = "Ok" =>
             \A t \in CollectReachable : collect.collected_mappings[t] # NoTypeMapping)
  /\ <>(collect.result # NotReturned)

\* A and B refer to each other and A to itself: the collection returned Ok
\* after walking each once
C28_Witness ==
  /\ collect_input.object_types["A"][1].field_type = "A"
  /\ collect_input.object_types["A"][2].field_type = "B"
  /\ collect_input.object_types["B"][1].field_type = "A"
  /\ collect.result.tag = "Ok"
  /\ collect.walked = <<"A", "B">>
  /\ Len(collect.calls) = 4

IsLocal(relationship_info) ==
  relationship_execution_category(relationship_info.source_data_connector,
                                  relationship_info.target_source.data_connector,
                                  relationship_info.target_source.capabilities) = "Local"

\* the relationship infos of that name in a ModelSelection and under its
\* local relationship fields
RECURSIVE LocalRelationshipInfos(_, _)
LocalRelationshipInfos(model_selection, name) ==
  {model_selection.selection[k].relationship_info :
     k \in {j \in 1..Len(model_selection.selection) :
              /\ model_selection.selection[j].variant
                   \in {"ModelRelationshipLocal", "CommandRelationshipLocal"}
              /\ model_selection.selection[j].name = name}}
    \cup {model_selection.order_by[k].relationship_info :
            k \in {j \in 1..Len(model_selection.order_by) :
                     model_selection.order_by[j].name = name}}
    \cup UNION {LocalRelationshipInfos(model_selection.selection[k].query, name) :
                  k \in {j \in 1..Len(model_selection.selection) :
                           model_selection.selection[j].variant = "ModelRelationshipLocal"}}

\* C23: every entry of the relationships map is of a relationship whose
\* execution category is Local; the remote relationship fields add no entry
\* and the ModelSelection under one is not walked.
C23_OnlyLocalRelationshipsCollected ==
  relationships_result # NothingCollected =>
    /\ \A name \in DOMAIN relationships_result.relationships :
         \E info \in LocalRelationshipInfos(relationships_ir, name) : IsLocal(info)
    /\ "r2" \notin DOMAIN relationships_result.relationships
    /\ "r6" \notin DOMAIN relationships_result.relationships
    /\ \A k \in 1..Len(relationships_result.traversed) :
         relationships_result.traversed[k] # "under_r2"

\* C24: the ModelSelection that select_many_generate_ir builds has every
\* argument preset of the role's model permission among its model arguments,
\* whatever arguments the field call has and in whatever order.
C24_ArgumentPresetsAlwaysMerged ==
  select_many_result.tag = "Ok" =>
    select_many_field_call.argument_presets \subseteq select_many_result.value.model_arguments

\* the relationships that became input fields
RelationshipInputFields ==
  {k \in 1..Len(schema_gds.relationships) :
     RelationshipNames[k] \in DOMAIN schema_result.value}

RepeatedDefinitions ==
  {j \in 1..Len(data_connector_definitions) :
     \E i \in 1..(j - 1) :
       /\ data_connector_definitions[i].subgraph = data_connector_definitions[j].subgraph
       /\ data_connector_definitions[i].name = data_connector_definitions[j].name}

DataConnectorsReturned == data_connectors_result # NotReturned

\* C26 as stated: the error is DuplicateDataConnectorDefinition exactly when
\* two definitions have the same subgraph and name.
C26_DuplicateExactlyWhenRepeated ==
  DataConnectorsReturned =>
    (data_connectors_result = Err("DuplicateDataConnectorDefinition")
       <=> RepeatedDefinitions # {})

\* C26: the error is DuplicateDataConnectorDefinition exactly when some
\* definition repeats the subgraph and name of an earlier one and the context
\* of every definition up to the first repeated one can be built; resolve
\* succeeds exactly when no definition is repeated and every context can be
\* built, whether or not a name appears in two subgraphs, and the map then
\* has one entry per definition.
C26_DuplicateDataConnectorDefinition ==
  DataConnectorsReturned =>
    /\ data_connectors_result = Err("DuplicateDataConnectorDefinition")
         <=> \E j \in RepeatedDefinitions :
               /\ \A i \in RepeatedDefinitions : j <= i
               /\ \A k \in 1..j : data_connector_definitions[k].context_ok
    /\ data_connectors_result.tag = "Ok"
         <=> /\ RepeatedDefinitions = {}
             /\ \A k \in 1..Len(data_connector_definitions) :
                  data_connector_definitions[k].context_ok
    /\ data_connectors_result.tag = "Ok" =>
         /\ Cardinality(DOMAIN data_connectors_result.value)
              = Len(data_connector_definitions)
         /\ \A k \in 1..Len(data_connector_definitions) :
              LET data_connector == data_connector_definitions[k]
              IN  /\ <<data_connector.subgraph, data_connector.name>>
                       \in DOMAIN data_connectors_result.value
                  /\ data_connectors_result.value[
                       <<data_connector.subgraph, data_connector.name>>].name
                       = data_connector.name

\* connector a is defined in both subgraphs and resolve accepts both
C26_Witness ==
  /\ data_connectors_result.tag = "Ok"
  /\ \E i, j \in 1..Len(data_connector_definitions) :
       /\ data_connector_definitions[i].name = data_connector_definitions[j].name
       /\ data_connector_definitions[i].subgraph # data_connector_definitions[j].subgraph

ObjectTypeResolved ==
  object_type_resolution # NotReturned /\ object_type_resolution.result.tag = "Ok"

DefinedFieldNames == {object_type_definition.fields[i] : i \in DOMAIN object_type_definition.fields}

GlobalIdFieldList ==
  IF object_type_definition.global_id_fields.tag = "Some"
    THEN object_type_definition.global_id_fields.value
    ELSE <<>>

HasApolloFederationConfig ==
  /\ object_type_definition.graphql.tag = "Some"
  /\ object_type_definition.graphql.value.apollo_federation.tag = "Some"

ApolloFederationKeyList ==
  IF HasApolloFederationConfig
    THEN object_type_definition.graphql.value.apollo_federation.value.keys
    ELSE <<>>

\* the definitions the claim says are rejected
ObjectTypeDefinitionInvalid ==
  \/ \E i, j \in DOMAIN object_type_definition.fields :
       i # j /\ object_type_definition.fields[i] = object_type_definition.fields[j]
  \/ \E i \in DOMAIN GlobalIdFieldList : GlobalIdFieldList[i] \notin DefinedFieldNames
  \/ \E k \in DOMAIN ApolloFederationKeyList :
       \E i \in DOMAIN ApolloFederationKeyList[k] :
         ApolloFederationKeyList[k][i] \notin DefinedFieldNames
  \/ "id" \in DefinedFieldNames /\ GlobalIdFieldList # <<>>
  \/ \E k \in DOMAIN ApolloFederationKeyList : ApolloFederationKeyList[k] = <<>>
  \/ HasApolloFederationConfig /\ ApolloFederationKeyList = <<>>

\* C27: resolve_object_type returns an error for a definition with two
\* fields of one name, an unknown global id or Apollo key field, a field id
\* next to global id fields, an Apollo key without fields or an empty Apollo
\* key list; when it returns Ok the type is in global_id_enabled_types
\* exactly if it has global id fields and in
\* apollo_federation_entity_enabled_types exactly if it has an Apollo
\* federation configuration.
C27_ObjectTypeErrorsAndRegistration ==
  object_type_resolution # NotReturned =>
    /\ ObjectTypeDefinitionInvalid => object_type_resolution.result.tag = "Err"
    /\ ObjectTypeResolved =>
         /\ "type" \in object_type_resolution.global_id_enabled_types
              <=> GlobalIdFieldList # <<>>
         /\ "type" \in object_type_resolution.apollo_federation_entity_enabled_types
              <=> HasApolloFederationConfig

\* a type with field a, global id field a and an Apollo key on a resolves
\* and is registered in both maps
C27_Witness ==
  /\ ObjectTypeResolved
  /\ GlobalIdFieldList = <<"a">>
  /\ ApolloFederationKeyList = <<(<<"a">>)>>
  /\ "type" \in object_type_resolution.global_id_enabled_types
  /\ "type" \in object_type_resolution.apollo_federation_entity_enabled_types

\* C29: resolve_aggregate_expression returns, Ok or an error, for every
\* input, also when an aggregatable field's aggregate expression leads back
\* to an aggregate expression over the same object type.
C29_ResolveAggregateExpressionReturns ==
  <>(aggregate_resolution.result.tag \in {"Ok", "Err"})

\* the zipped tree has the aliases of the tree in their order, the node kind
\* of each location, and at each Remote node its RemoteJoin and the JoinId
\* of the join ids tree, at every level
RECURSIVE ZippedAs(_, _, _)
ZippedAs(locations, ids, zipped) ==
  /\ Len(zipped) = Len(locations)
  /\ \A k \in 1..Len(locations) :
       /\ zipped[k].key = k
       /\ zipped[k].value.join_node.tag = locations[k].join_node.tag
       /\ zipped[k].value.join_node.kind = locations[k].join_node.kind
       /\ zipped[k].value.join_node.remote_join = locations[k].join_node.remote_join
       /\ zipped[k].value.join_node.join_id = ids[k].join_node.join_id
       /\ ZippedAs(locations[k].rest, ids[k].rest, zipped[k].value.rest)

\* C30: assign_with_join_ids returns Ok for every JoinLocations tree, and
\* the tree it returns has the same aliases in the same order at every
\* level, the same kind of node at every location, and at each Remote node
\* the RemoteJoin of the tree with its JoinId; neither internal error of
\* zip_with_join_ids is returned.
C30_AssignWithJoinIdsKeepsTheTree ==
  join_pc = "zipped" =>
    /\ zipped_join_locations.tag = "Ok"
    /\ ZippedAs(join_locations, join_ids, zipped_join_locations.value)

\* a tree of three locations at the top, a Remote one first and a local
\* relationship last, has been zipped with its join ids
C30_Witness ==
  /\ join_pc = "zipped"
  /\ Len(join_locations) = 3
  /\ join_locations[1].join_node.tag = "Remote"
  /\ join_locations[2].join_node.kind = "NestedData"
  /\ join_locations[3].join_node.kind = "LocalRelationship"
  /\ zipped_join_locations.tag = "Ok"
  /\ zipped_join_locations.value[1].value.join_node.join_id = 1

====
